---- MODULE Spec2Model ----
(***************************************************************************)
(* A model of the greengraph package: the linear solve engine              *)
(* (greengraph/math/matrix.py), the graph constructors                     *)
(* (greengraph/importers/databases/generic.py) and the matrix extraction   *)
(* (greengraph/math/conversion.py).                                        *)
(*                                                                         *)
(* Conventions of the model                                                *)
(*  - a matrix is a sequence of rows, a row a sequence of integers;        *)
(*  - an xarray.DataArray is a record [data, rows, cols, format];          *)
(*  - floating point numbers are modelled by exact rationals: a vector is  *)
(*    a record [num, den, rows] with one common positive denominator;      *)
(*  - a call either returns a value or raises: results carry a field err,  *)
(*    "none" for a normal return, else the name of the exception.          *)
(***************************************************************************)
EXTENDS Integers, Sequences, FiniteSets, TLC

VARIABLES
    pc,        \* position of the calling script
    A,         \* the technosphere DataArray handed to calculate_production_vector
    demand,    \* the demand mapping, in insertion order: a sequence of <<node, amount>>
    f,         \* the demand vector built inside calculate_production_vector
    x,         \* result of calculate_production_vector
    B,         \* the biosphere DataArray handed to calculate_inventory_vector
    g,         \* result of calculate_inventory_vector
    args,      \* the arguments of a graph constructor, as the caller supplies them
    built,     \* result of the graph constructor
    opts,      \* the arguments of _generate_matrices_from_graph besides the graph
    matrices,  \* result of _generate_matrices_from_graph
    inventory_split,  \* the dict of categories handed to calculate_inventory_matrix,
                      \* in insertion order: a sequence of <<category, list of nodes>>
    g_matrix,  \* result of calculate_inventory_matrix
    cache_dir, \* the directory APP_CACHE_BASE_DIR: its sub-directories and files
    downloads, \* the number of requests.get calls made so far
    loaded,    \* the last call of _load_file_from_zenodo_with_caching and its
               \* result, and the calls that have returned since the cache
               \* directory was last removed
    h,         \* result of calculate_impact_vector
    validated, \* the last call of GreenMultiDiGraph._validate_node_attributes:
               \* its arguments, whether the node was in the graph, its outcome
    list_nodes \* result of _get_nodes_from_node_container

vars == <<pc, A, demand, f, x, B, g, args, built, opts, matrices, inventory_split, g_matrix, cache_dir, downloads, loaded, h, validated, list_nodes>>

(***************************************************************************)
(* Bounds of the model.                                                    *)
(***************************************************************************)
MaxEntry == 3
MaxDemandLen == 2
MaxProd == 2
MaxExt == 2
MaxInd == 1
MaxEdges == 2
MaxDownloads == 3
MaxContainer == 3

(***************************************************************************)
(* Arithmetic helpers.                                                     *)
(***************************************************************************)
Abs(n) == IF n < 0 THEN -n ELSE n

RECURSIVE Gcd(_, _)
Gcd(a, b) == IF b = 0 THEN Abs(a) ELSE Gcd(b, a % Abs(b))

RECURSIVE GcdSeq(_, _)
GcdSeq(s, acc) == IF s = <<>> THEN acc ELSE GcdSeq(Tail(s), Gcd(Head(s), acc))

\* s[lo] + ... + s[hi], summed by halves
RECURSIVE SumRange(_, _, _)
SumRange(s, lo, hi) ==
    IF lo > hi THEN 0
    ELSE IF lo = hi THEN s[lo]
    ELSE SumRange(s, lo, (lo + hi) \div 2) + SumRange(s, ((lo + hi) \div 2) + 1, hi)

SumSeq(s) == SumRange(s, 1, Len(s))

\* the rational vector num/den in lowest terms with a positive denominator
Normalise(num, den) ==
    LET d == GcdSeq(num, den)
        sgn == IF den < 0 THEN -1 ELSE 1
    IN [num |-> [i \in 1..Len(num) |-> sgn * (num[i] \div d)],
        den |-> sgn * (den \div d)]

NRows(M) == Len(M)
NCols(M) == IF Len(M) = 0 THEN 0 ELSE Len(M[1])

\* M without row 1 and column j
Minor(M, j) ==
    [r \in 1..(Len(M) - 1) |->
        [c \in 1..(Len(M) - 1) |-> M[r + 1][IF c < j THEN c ELSE c + 1]]]

RECURSIVE Det(_)
Det(M) ==
    IF Len(M) = 0 THEN 1
    ELSE IF Len(M) = 1 THEN M[1][1]
    ELSE SumSeq([j \in 1..Len(M) |->
            (IF j % 2 = 1 THEN 1 ELSE -1) * M[1][j] * Det(Minor(M, j))])

ReplaceCol(M, k, rhs) ==
    [r \in 1..Len(M) |-> [c \in 1..Len(M) |-> IF c = k THEN rhs[r] ELSE M[r][c]]]

\* mutant: the sign of A is lost, np.eye(n) + A.data
EyeMinus_plus(M) ==
    [r \in 1..Len(M) |-> [c \in 1..Len(M) |-> (IF r = c THEN 1 ELSE 0) + M[r][c]]]

\* np.eye(n) - A.data
EyeMinus(M) ==
    [r \in 1..Len(M) |-> [c \in 1..Len(M) |-> (IF r = c THEN 1 ELSE 0) - M[r][c]]]

\* np.linalg.solve(M, rhs): the exact solution of M x = rhs (Cramer's rule), or
\* LinAlgError when M is singular
LinalgSolve(M, rhs) ==
    IF Det(M) = 0
    THEN [err |-> "LinAlgError", num |-> <<>>, den |-> 1]
    ELSE LET n == Normalise([k \in 1..Len(M) |-> Det(ReplaceCol(M, k, rhs))], Det(M))
         IN [err |-> "none", num |-> n.num, den |-> n.den]

\* data @ v for a matrix of integers and a rational vector
MatVec(M, num, den) ==
    Normalise([r \in 1..Len(M) |->
                  SumSeq([c \in 1..Len(num) |-> M[r][c] * num[c]])], den)

IsIn(node, labels) == \E i \in 1..Len(labels) : labels[i] = node

Range(s) == {s[i] : i \in 1..Len(s)}
Injective(s) == \A i, j \in 1..Len(s) : s[i] = s[j] => i = j

NoArray == [data |-> <<>>, rows |-> <<>>, cols |-> <<>>, format |-> "dense"]

NoVector == [err |-> "none", num |-> <<>>, den |-> 1, rows |-> <<>>]
NotValidated == [called |-> FALSE, node |-> <<>>, attributes |-> <<>>, in_graph |-> FALSE, err |-> "none"]
Raised(e) == [err |-> e, num |-> <<>>, den |-> 1, rows |-> <<>>]

(***************************************************************************)
(* greengraph/math/matrix.py                                               *)
(***************************************************************************)

\* the loop over demand.items(): f after entries k.. have been written, or the
\* ValueError of the first key that is no row label
\* mutant: a key that is no row label is skipped instead of raising
RECURSIVE DemandLoop_skip(_, _, _, _)
DemandLoop_skip(rows, dem, k, fv) ==
    IF k > Len(dem) THEN [err |-> "none", f |-> fv]
    ELSE DemandLoop_skip(rows, dem, k + 1,
             [i \in 1..Len(rows) |-> IF rows[i] = dem[k][1] THEN dem[k][2] ELSE fv[i]])

RECURSIVE DemandLoop(_, _, _, _)
DemandLoop(rows, dem, k, fv) ==
    IF k > Len(dem) THEN [err |-> "none", f |-> fv]
    ELSE IF IsIn(dem[k][1], rows)
         THEN DemandLoop(rows, dem, k + 1,
                  [i \in 1..Len(rows) |-> IF rows[i] = dem[k][1] THEN dem[k][2] ELSE fv[i]])
         ELSE [err |-> "ValueError", f |-> fv]

DemandVector(a, dem) ==
    DemandLoop(a.rows, dem, 1, [i \in 1..NRows(a.data) |-> 0])

calculate_production_vector(a, dem) ==
    LET fv == DemandVector(a, dem) IN
    IF fv.err # "none" THEN Raised(fv.err)
    ELSE IF a.format # "dense" THEN Raised("TypeError")
    ELSE LET s == LinalgSolve(EyeMinus(a.data), fv.f) IN
         IF s.err # "none" THEN Raised(s.err)
         ELSE [err |-> "none", num |-> s.num, den |-> s.den, rows |-> a.rows]

\* mutant: the labels are compared as sets, their order is ignored
ArrayEqual_asSets(l1, l2) ==
    Len(l1) = Len(l2) /\ {l1[i] : i \in 1..Len(l1)} = {l2[i] : i \in 1..Len(l2)}

\* np.array_equal on two label arrays
ArrayEqual(l1, l2) == l1 = l2

calculate_inventory_vector(xv, b) ==
    IF b.format # "dense" THEN Raised("TypeError")
    ELSE IF ~ArrayEqual(b.cols, xv.rows) THEN Raised("ValueError")
    ELSE LET p == MatVec(b.data, xv.num, xv.den) IN
         [err |-> "none", num |-> p.num, den |-> p.den, rows |-> b.rows]

\* mutant: the row labels of Q are compared with the row labels of g
calculate_impact_vector_rows(gv, q) ==
    IF q.format # "dense" THEN Raised("TypeError")
    ELSE IF ~ArrayEqual(q.rows, gv.rows) THEN Raised("ValueError")
    ELSE LET p == MatVec(q.data, gv.num, gv.den) IN
         [err |-> "none", num |-> p.num, den |-> p.den, rows |-> q.rows]

calculate_impact_vector(gv, q) ==
    IF q.format # "dense" THEN Raised("TypeError")
    ELSE IF ~ArrayEqual(q.cols, gv.rows) THEN Raised("ValueError")
    ELSE LET p == MatVec(q.data, gv.num, gv.den) IN
         [err |-> "none", num |-> p.num, den |-> p.den, rows |-> q.rows]

NoInventoryMatrix == [err |-> "none", num |-> <<>>, den |-> 1, rows |-> <<>>, cols |-> <<>>]

\* mutant: the production of every node is written into every category's column
calculate_inventory_matrix_unsplit(xv, split, b) ==
    LET x_matrix == [n \in 1..Len(xv.rows) |-> [c \in 1..Len(split) |-> xv.num[n]]]
    IN IF \E c \in 1..Len(split) : \E k \in 1..Len(split[c][2]) :
             ~IsIn(split[c][2][k], xv.rows)
       THEN [NoInventoryMatrix EXCEPT !.err = "KeyError"]
       ELSE IF NCols(b.data) # Len(xv.rows)
       THEN [NoInventoryMatrix EXCEPT !.err = "ValueError"]
       ELSE [err |-> "none",
             num |-> [r \in 1..NRows(b.data) |-> [c \in 1..Len(split) |->
                         SumSeq([n \in 1..Len(xv.rows) |-> b.data[r][n] * x_matrix[n][c]])]],
             den |-> xv.den,
             rows |-> b.rows,
             cols |-> [c \in 1..Len(split) |-> split[c][1]]]

\* lines 353-379: x_matrix is zero but for the entries that the loop of line
\* 367 writes, x.loc[list_nodes] into the rows list_nodes of the category's
\* column (KeyError for a node that is no label of x); the result is
\* B.data @ x_matrix.data, its entries the quotients num[r][c] / den, and the
\* labels of B's columns are not read
calculate_inventory_matrix(xv, split, b) ==
    LET x_matrix == [n \in 1..Len(xv.rows) |-> [c \in 1..Len(split) |->
                        IF IsIn(xv.rows[n], split[c][2]) THEN xv.num[n] ELSE 0]]
    IN IF \E c \in 1..Len(split) : \E k \in 1..Len(split[c][2]) :
             ~IsIn(split[c][2][k], xv.rows)
       THEN [NoInventoryMatrix EXCEPT !.err = "KeyError"]
       ELSE IF NCols(b.data) # Len(xv.rows)
       THEN [NoInventoryMatrix EXCEPT !.err = "ValueError"]
       ELSE [err |-> "none",
             num |-> [r \in 1..NRows(b.data) |-> [c \in 1..Len(split) |->
                         SumSeq([n \in 1..Len(xv.rows) |-> b.data[r][n] * x_matrix[n][c]])]],
             den |-> xv.den,
             rows |-> b.rows,
             cols |-> [c \in 1..Len(split) |-> split[c][1]]]

(***************************************************************************)
(* greengraph/utility/download.py.  A path under APP_CACHE_BASE_DIR is a   *)
(* pair <<name_dir_cache, name_file>>; a file is its content and the time  *)
(* of its last modification, which the model takes to be the number of     *)
(* the download that wrote it.                                             *)
(***************************************************************************)
EmptyCache == [dirs |-> {}, files |-> <<>>]
NothingLoaded == [call |-> <<>>, err |-> "none", path |-> <<>>, repeated |-> FALSE, returned |-> {}]

\* the files that Zenodo serves, by <<zenodo_record, name_file>>
ZenodoFiles ==
    (<<"13242885", "test1.txt">> :> "testets") @@ (<<"15272306", "test1.txt">> :> "other")
    @@ (<<"15272306", "test2.txt">> :> "data")

\* mutant: the file is downloaded although it is in the cache
_load_file_from_zenodo_with_caching_always(fs, name_file, name_dir_cache, zenodo_record, response, stamp) ==
    LET path_cached_file == <<name_dir_cache, name_file>>
        made == [fs EXCEPT !.dirs = @ \cup {name_dir_cache}]
    IN IF response = "timeout"
       THEN [err |-> "ConnectionError", path |-> <<>>, fs |-> made, requested |-> TRUE]
       ELSE IF <<zenodo_record, name_file>> \notin DOMAIN ZenodoFiles
       THEN [err |-> "HTTPError", path |-> <<>>, fs |-> made, requested |-> TRUE]
       ELSE IF response = "write_error"
       THEN [err |-> "OSError", path |-> <<>>, requested |-> TRUE,
             fs |-> [made EXCEPT !.files =
                        (path_cached_file :> [content |-> "", mtime |-> stamp]) @@ @]]
       ELSE [err |-> "none", path |-> path_cached_file, requested |-> TRUE,
             fs |-> [made EXCEPT !.files =
                        (path_cached_file :>
                            [content |-> ZenodoFiles[<<zenodo_record, name_file>>],
                             mtime |-> stamp]) @@ @]]

\* lines 36-55 on the file system fs: the result, the file system after the
\* call, and whether requests.get was called.  response is what the network
\* and the disk do: the request times out (line 46), the server answers (an
\* error status for a file it does not have, line 47), or the write of line 49
\* fails after open has created the file.
_load_file_from_zenodo_with_caching(fs, name_file, name_dir_cache, zenodo_record, response, stamp) ==
    LET path_cached_file == <<name_dir_cache, name_file>>
        made == [fs EXCEPT !.dirs = @ \cup {name_dir_cache}]
    IN IF path_cached_file \in DOMAIN fs.files
       THEN [err |-> "none", path |-> path_cached_file, fs |-> made, requested |-> FALSE]
       ELSE IF response = "timeout"
       THEN [err |-> "ConnectionError", path |-> <<>>, fs |-> made, requested |-> TRUE]
       ELSE IF <<zenodo_record, name_file>> \notin DOMAIN ZenodoFiles
       THEN [err |-> "HTTPError", path |-> <<>>, fs |-> made, requested |-> TRUE]
       ELSE IF response = "write_error"
       THEN [err |-> "OSError", path |-> <<>>, requested |-> TRUE,
             fs |-> [made EXCEPT !.files =
                        (path_cached_file :> [content |-> "", mtime |-> stamp]) @@ @]]
       ELSE [err |-> "none", path |-> path_cached_file, requested |-> TRUE,
             fs |-> [made EXCEPT !.files =
                        (path_cached_file :>
                            [content |-> ZenodoFiles[<<zenodo_record, name_file>>],
                             mtime |-> stamp]) @@ @]]

(***************************************************************************)
(* networkx.MultiDiGraph, as far as the constructors use it.               *)
(*  - nodes: the node identifiers in insertion order;                      *)
(*  - attr:  node identifier -> attribute dict (a function on its keys);   *)
(*  - edges: records [u, v, key, attr] in insertion order, (u, v, key)     *)
(*           identifying an edge.                                          *)
(* Node identifiers (UUID strings, names) are modelled as integers whose   *)
(* order stands for the order of the strings.                              *)
(***************************************************************************)
EmptyDict == [k \in {} |-> 0]
EmptyGraph == [nodes |-> <<>>, attr |-> [n \in {} |-> EmptyDict], edges |-> <<>>]

\* dict.update: the keys of d2 take precedence
Update(d1, d2) ==
    [k \in (DOMAIN d1) \cup (DOMAIN d2) |-> IF k \in DOMAIN d2 THEN d2[k] ELSE d1[k]]

Put(d, k, v) == Update(d, k :> v)

HasNode(G, n) == n \in DOMAIN G.attr

\* Graph.add_node(n, **a): a new node is appended, a known node's dict is updated
AddNode(G, n, a) ==
    IF HasNode(G, n)
    THEN [G EXCEPT !.attr = [m \in DOMAIN G.attr |->
                                 IF m = n THEN Update(G.attr[m], a) ELSE G.attr[m]]]
    ELSE [G EXCEPT !.nodes = Append(@, n),
                   !.attr = [m \in (DOMAIN G.attr) \cup {n} |->
                                 IF m = n THEN a ELSE G.attr[m]]]

\* Graph.add_nodes_from(list, **a) for a list of plain nodes
\* Python evaluates an argument before the call, TLC when it is first read:
\* a loop reads the value it has accumulated in every step, so that the
\* evaluation of the loop stays flat
Evaluated(v) == v = v

RECURSIVE AddNodesFrom(_, _, _)
AddNodesFrom(G, list, a) ==
    IF Evaluated(G) /\ list = <<>> THEN G
    ELSE AddNodesFrom(AddNode(G, Head(list), a), Tail(list), a)

EdgeKeys(G, u, v) ==
    {G.edges[i].key : i \in {j \in 1..Len(G.edges) : G.edges[j].u = u /\ G.edges[j].v = v}}

\* MultiGraph.new_edge_key: the number of edges u -> v, raised until unused
NewEdgeKey(G, u, v) ==
    LET ks == EdgeKeys(G, u, v)
        n == Cardinality(ks)
    IN CHOOSE k \in n..(2 * n) : k \notin ks /\ \A j \in n..(k - 1) : j \in ks

\* MultiDiGraph.add_edge(u, v, key) followed by the update of the edge's dict
AddEdgeKeyed(G, u, v, key, a) ==
    LET G1 == AddNode(AddNode(G, u, EmptyDict), v, EmptyDict) IN
    IF key \in EdgeKeys(G1, u, v)
    THEN [G1 EXCEPT !.edges = [i \in 1..Len(G1.edges) |->
              IF G1.edges[i].u = u /\ G1.edges[i].v = v /\ G1.edges[i].key = key
              THEN [G1.edges[i] EXCEPT !.attr = Update(@, a)]
              ELSE G1.edges[i]]]
    ELSE [G1 EXCEPT !.edges = Append(@, [u |-> u, v |-> v, key |-> key, attr |-> a])]

\* add_edge(u, v) with key = None
AddEdge(G, u, v, a) == AddEdgeKeyed(G, u, v, NewEdgeKey(G, u, v), a)

\* the (row, column) index pairs of np.nonzero(matrix), in row-major order
Cells(M) ==
    [k \in 1..(NRows(M) * NCols(M)) |->
        <<((k - 1) \div NCols(M)) + 1, ((k - 1) % NCols(M)) + 1>>]

\* G.add_edges_from of one edge per non-zero cell of M, from cell k on
RECURSIVE AddMatrixEdges(_, _, _, _, _, _, _)
AddMatrixEdges(G, M, rowNodes, colNodes, k, amount, common) ==
    IF Evaluated(G) /\ k > NRows(M) * NCols(M) THEN G
    ELSE LET i == Cells(M)[k][1]
             j == Cells(M)[k][2]
         IN IF M[i][j] = 0
            THEN AddMatrixEdges(G, M, rowNodes, colNodes, k + 1, amount, common)
            ELSE AddMatrixEdges(
                     AddEdge(G, rowNodes[i], colNodes[j], Put(common, amount, M[i][j])),
                     M, rowNodes, colNodes, k + 1, amount, common)

\* does a non-zero cell of M lie outside the labels given for its axis
LabelIndexError(M, rowNodes, colNodes) ==
    \E i \in 1..NRows(M), j \in 1..NCols(M) :
        M[i][j] # 0 /\ (i > Len(rowNodes) \/ j > Len(colNodes))

\* nx.from_numpy_array(M, create_using=nx.MultiDiGraph, parallel_edges=False,
\*                     edge_attr='flow', nodelist=nodelist)
from_numpy_array(M, nodelist) ==
    IF NRows(M) # NCols(M) THEN [err |-> "NetworkXError", graph |-> EmptyGraph]
    ELSE IF Len(nodelist) # NRows(M) THEN [err |-> "ValueError", graph |-> EmptyGraph]
    ELSE [err |-> "none",
          graph |-> AddMatrixEdges(AddNodesFrom(EmptyGraph, nodelist, EmptyDict),
                                   M, nodelist, nodelist, 1, "flow", EmptyDict)]

\* greengraph.utility.graph.graph_from_matrix with two node lists, which
\* generic.py imports under its former name from_biadjacency_matrix; the labels
\* are strings, so that str(row) and str(col) return them
from_biadjacency_matrix(M, nodes_axis_0, nodes_axis_1, attributes_nodes_axis_0, attributes_nodes_axis_1, amount_attribute, dict_attributes) ==
    IF LabelIndexError(M, nodes_axis_0, nodes_axis_1)
    THEN [err |-> "IndexError", graph |-> EmptyGraph]
    ELSE [err |-> "none",
          graph |-> AddMatrixEdges(
                        AddNodesFrom(AddNodesFrom(EmptyGraph, nodes_axis_0,
                                                  attributes_nodes_axis_0),
                                     nodes_axis_1, attributes_nodes_axis_1),
                        M, nodes_axis_0, nodes_axis_1, 1, amount_attribute,
                        dict_attributes)]

\* str(label): a string is itself.  Where a caller's nodes are Python
\* integers, the integer k is modelled as -k and the string of its digits as
\* 900 + k, a node of its own.
Str(label) == IF label < 0 THEN 900 - label ELSE label

\* greengraph.utility.graph.graph_from_matrix (lines 119-147) with
\* create_using a MultiDiGraph class.  A node container is a sequence whose
\* items are <<node, attributes>> for a (node, dict) tuple and <<node>> for a
\* plain node; has_axis_1 is FALSE for nodes_axis_1=None, None for a dict of
\* common attributes is the empty dict.
graph_from_matrix(M, nodes_axis_0, has_axis_1, nodes_axis_1, attributes_nodes_axis_0, attributes_nodes_axis_1, amount_attribute, dict_attributes) ==
    LET \* G.add_nodes_from(container, **common) on the graph G0
        add_nodes_from(G0, container, common) ==
            LET added[k \in 0..Len(container)] ==
                    IF k = 0 THEN G0
                    ELSE AddNode(added[k - 1], container[k][1],
                                 IF Len(container[k]) = 2
                                 THEN Update(common, container[k][2]) ELSE common)
            IN added[Len(container)]
        \* _get_nodes_from_node_container
        labels(container) == [k \in 1..Len(container) |-> container[k][1]]
        nodes0 == add_nodes_from(EmptyGraph, nodes_axis_0, attributes_nodes_axis_0)
        nodes == IF has_axis_1
                 THEN add_nodes_from(nodes0, nodes_axis_1, attributes_nodes_axis_1)
                 ELSE nodes0
        rowLabels == labels(nodes_axis_0)
        colLabels == IF has_axis_1 THEN labels(nodes_axis_1) ELSE rowLabels
    IN IF LabelIndexError(M, rowLabels, colLabels)
       THEN [err |-> "IndexError", graph |-> EmptyGraph]
       ELSE [err |-> "none",
             graph |-> AddMatrixEdges(nodes, M,
                           [k \in 1..Len(rowLabels) |-> Str(rowLabels[k])],
                           [k \in 1..Len(colLabels) |-> Str(colLabels[k])],
                           1, amount_attribute, dict_attributes)]

(***************************************************************************)
(* greengraph/utility/graph.py: _get_nodes_from_node_container.  A Python  *)
(* value is a record [type, value]: a str holds the sequence of its        *)
(* character codes, a tuple the sequence of its items, a frozenset its     *)
(* set of items, a dict its mapping, an int its number; None is            *)
(* [type |-> "NoneType", value |-> 0].                                     *)
(***************************************************************************)
NoNodes == [err |-> "none", list |-> <<>>]

\* the list after the items k.. of the container have been handled:
\* isinstance(item, Iterable) holds of a str, a tuple and a frozenset;
\* item[-1] raises IndexError for an empty str or tuple and TypeError for a
\* frozenset, which has no __getitem__
RECURSIVE _get_nodes_from_node_container(_, _, _)
_get_nodes_from_node_container(node_container, k, list) ==
    IF k > Len(node_container) THEN [err |-> "none", list |-> list]
    ELSE LET item == node_container[k] IN
         IF item.type \in {"str", "tuple", "frozenset"}
         THEN IF item.type = "frozenset" THEN [err |-> "TypeError", list |-> <<>>]
              ELSE IF Len(item.value) = 0 THEN [err |-> "IndexError", list |-> <<>>]
              ELSE IF item.type = "tuple" /\ item.value[Len(item.value)].type = "dict"
              THEN _get_nodes_from_node_container(node_container, k + 1,
                                                  Append(list, item.value[1]))
              ELSE _get_nodes_from_node_container(node_container, k + 1, Append(list, item))
         ELSE _get_nodes_from_node_container(node_container, k + 1, Append(list, item))

RECURSIVE ComposeNodes(_, _, _)
ComposeNodes(R, H, k) ==
    IF Evaluated(R) /\ k > Len(H.nodes) THEN R
    ELSE ComposeNodes(AddNode(R, H.nodes[k], H.attr[H.nodes[k]]), H, k + 1)

RECURSIVE ComposeEdges(_, _, _)
ComposeEdges(R, H, k) ==
    IF Evaluated(R) /\ k > Len(H.edges) THEN R
    ELSE ComposeEdges(AddEdgeKeyed(R, H.edges[k].u, H.edges[k].v, H.edges[k].key,
                                   H.edges[k].attr), H, k + 1)

\* nx.compose(G, H): the nodes of G, then of H, then the edges of G, then of H;
\* where both have a node or an edge, the attributes of H take precedence
compose(G, H) ==
    ComposeEdges(ComposeEdges(ComposeNodes(ComposeNodes(EmptyGraph, G, 1), H, 1), G, 1), H, 1)

(***************************************************************************)
(* greengraph/core: GreenMultiDiGraph._validate_node_attributes, as the    *)
(* tests of tests/test_core.py describe it.  An argument that may be None  *)
(* is a sequence: <<>> for None, <<v>> for the value v.                    *)
(***************************************************************************)
\* mutant: the attributes of a node that is already in the graph are validated too
_validate_node_attributes_always(G, node, attributes) ==
    LET valid_node_types == {"production", "extension", "indicator"} IN
    IF node = <<>> THEN "ValueError"
    ELSE IF attributes = <<>> THEN "ValueError"
    ELSE IF "type" \notin DOMAIN attributes[1] THEN "ValueError"
    ELSE IF attributes[1]["type"] \notin valid_node_types THEN "ValueError"
    ELSE "none"

\* the exception raised, or "none"
_validate_node_attributes(G, node, attributes) ==
    LET valid_node_types == {"production", "extension", "indicator"} IN
    IF node # <<>> /\ HasNode(G, node[1]) THEN "none"
    ELSE IF node = <<>> THEN "ValueError"
    ELSE IF attributes = <<>> THEN "ValueError"
    ELSE IF "type" \notin DOMAIN attributes[1] THEN "ValueError"
    ELSE IF attributes[1]["type"] \notin valid_node_types THEN "ValueError"
    ELSE "none"

(***************************************************************************)
(* greengraph/importers/databases/generic.py:                              *)
(* graph_system_from_input_output_matrices.  Its arguments are a record    *)
(* with the parameters' names; has_indicator and has_indicator_metadata    *)
(* say whether array_indicator and list_dicts_indicator_node_metadata are  *)
(* given (not None); uuid4 holds, per node type, the identifiers that the  *)
(* successive uuid.uuid4() calls return.  A metadata dict is a function on *)
(* its keys.  The identity field str_*_nodes_uuid is 'name'.               *)
(***************************************************************************)
NameSystem == "example_system"
IdField == "name"

FillDiagonal(M, v) ==
    [r \in 1..NRows(M) |-> [c \in 1..NCols(M) |-> IF r = c THEN v ELSE M[r][c]]]

AbsMatrix(M) == [r \in 1..NRows(M) |-> [c \in 1..NCols(M) |-> Abs(M[r][c])]]

AllNonNegative(M) == \A r \in 1..NRows(M), c \in 1..NCols(M) : M[r][c] >= 0

\* lines 146-156: which arguments are None
MissingArgumentError(a) ==
    IF ~a.has_indicator /\ a.has_indicator_metadata THEN "ValueError"
    ELSE IF a.has_indicator /\ ~a.has_indicator_metadata THEN "ValueError"
    ELSE "none"

\* mutant: the indicator matrix is not compared with the extension matrix
ShapeError_noIndicator(a) ==
    IF NRows(a.array_production) # NCols(a.array_production) THEN "ValueError"
    ELSE IF NCols(a.array_extension) # NRows(a.array_production) THEN "ValueError"
    ELSE "none"

\* lines 158-164: the shapes of the matrices
ShapeError(a) ==
    IF NRows(a.array_production) # NCols(a.array_production) THEN "ValueError"
    ELSE IF NCols(a.array_extension) # NRows(a.array_production) THEN "ValueError"
    ELSE IF a.has_indicator /\ NCols(a.array_indicator) # NRows(a.array_extension)
         THEN "ValueError"
    ELSE "none"

\* lines 166-178: every matrix has one row per metadata dict (the entries of the
\* model's matrices are numbers, so the dtype test passes)
MetadataLengthError(a) ==
    IF NRows(a.array_production) # Len(a.list_dicts_production_node_metadata)
    THEN "ValueError"
    ELSE IF NRows(a.array_extension) # Len(a.list_dicts_extension_node_metadata)
    THEN "ValueError"
    ELSE IF a.has_indicator
            /\ NRows(a.array_indicator) # Len(a.list_dicts_indicator_node_metadata)
    THEN "ValueError"
    ELSE "none"

\* lines 180-183: 'name' and 'unit' are required of the production dicts
RequiredKeysError(a) ==
    IF \E k \in 1..Len(a.list_dicts_production_node_metadata) :
          ~({"name", "unit"} \subseteq DOMAIN a.list_dicts_production_node_metadata[k])
    THEN "ValueError" ELSE "none"

\* lines 185-192: under 'A' the name A is read before it is bound (line 189)
ConventionError(a) ==
    IF a.matrix_convention \notin {"I-A", "A"} THEN "ValueError"
    ELSE IF a.matrix_convention = "A" THEN "UnboundLocalError"
    ELSE IF ~AllNonNegative(a.array_production) THEN "ValueError"
    ELSE "none"

\* the first error of lines 146-192, "none" when the arguments pass
PreconditionError(a) ==
    IF MissingArgumentError(a) # "none" THEN MissingArgumentError(a)
    ELSE IF ShapeError(a) # "none" THEN ShapeError(a)
    ELSE IF MetadataLengthError(a) # "none" THEN MetadataLengthError(a)
    ELSE IF RequiredKeysError(a) # "none" THEN RequiredKeysError(a)
    ELSE ConventionError(a)

\* line 188 is reached, and np.fill_diagonal has written the caller's array
DiagonalFilled(a) ==
    /\ MissingArgumentError(a) = "none" /\ ShapeError(a) = "none"
    /\ MetadataLengthError(a) = "none" /\ RequiredKeysError(a) = "none"
    /\ a.matrix_convention = "A"

ArrayProductionAfterChecks(a) ==
    IF DiagonalFilled(a) THEN FillDiagonal(a.array_production, 0) ELSE a.array_production

\* lines 195-227, one dict: the keys written into it
ParsedDict(a, P, d, k, kind) ==
    LET id == IF a.assign_new_uuids THEN a.uuid4[kind][k] ELSE d[IdField]
        keys == ("uuid" :> id) @@ ("index" :> (k - 1)) @@ ("type" :> kind)
                @@ ("system" :> NameSystem)
    IN IF kind # "production" THEN Update(d, keys)
       ELSE Update(d, keys @@ ("production" :>
                (IF a.matrix_convention = "I-A" THEN 1 ELSE P[k][k])))

\* lines 195-227, one list from dict k on: the dicts are written in place until
\* one lacks the identity field (KeyError)
RECURSIVE ParseMetadata(_, _, _, _, _)
ParseMetadata(a, P, list, k, kind) ==
    IF k > Len(list) THEN [err |-> "none", list |-> list]
    ELSE IF ~a.assign_new_uuids /\ IdField \notin DOMAIN list[k]
         THEN [err |-> "KeyError", list |-> list]
         ELSE ParseMetadata(a, P, [list EXCEPT ![k] = ParsedDict(a, P, list[k], k, kind)],
                            k + 1, kind)

Uuids(list) == [k \in 1..Len(list) |-> list[k]["uuid"]]

\* lines 305-315, one list: every key of every dict is written on its node
RECURSIVE SetNodeAttributes(_, _, _)
SetNodeAttributes(G, list, k) ==
    IF Evaluated(G) /\ k > Len(list) THEN G
    ELSE SetNodeAttributes(AddNode(G, list[k]["uuid"], list[k]), list, k + 1)

NoSubgraphs == [A |-> EmptyGraph, B |-> EmptyGraph, Q |-> EmptyGraph]
NoArguments == <<>>
NoGraph == [err |-> "none", graph |-> EmptyGraph, sub |-> NoSubgraphs, after |-> NoArguments]

ExtensionNodeAttributes == "type" :> "extension"
ProductionNodeAttributes == "type" :> "production"
IndicatorNodeAttributes == "type" :> "indicator"
ExtensionEdgeAttributes ==
    ("type_origin" :> "production") @@ ("type_destination" :> "extension")
IndicatorEdgeAttributes ==
    ("type_origin" :> "extension") @@ ("type_destination" :> "indicator")

\* lines 317-330: nx.compose(B, A), and nx.compose(Q, BcomposeA) with an indicator
ComposeSubgraphs(sub, has_indicator) ==
    IF has_indicator THEN compose(sub.Q, compose(sub.B, sub.A))
    ELSE compose(sub.B, sub.A)

\* lines 229-254: xr.DataArray(data, coords) raises when an axis of the data
\* and the list of its coordinates differ in length
CoordsError(M, rowLabels, colLabels) ==
    IF NRows(M) # Len(rowLabels) \/ NCols(M) # Len(colLabels)
    THEN "ValueError" ELSE "none"

DataArrayError(a, P, mdP, mdE, mdQ) ==
    IF CoordsError(P, mdP, mdP) # "none" THEN "ValueError"
    ELSE IF CoordsError(a.array_extension, mdE, mdP) # "none" THEN "ValueError"
    ELSE IF a.has_indicator /\ CoordsError(a.array_indicator, mdQ, mdE) # "none"
    THEN "ValueError"
    ELSE "none"

\* lines 229-330, entered with the parsed metadata lists
BuildFromParsed(a, P, mdP, mdE, mdQ) ==
    LET gA == from_numpy_array(AbsMatrix(P), Uuids(mdP))
        gB == from_biadjacency_matrix(a.array_extension, Uuids(mdE), Uuids(mdP),
                  ExtensionNodeAttributes, ProductionNodeAttributes, "flow",
                  ExtensionEdgeAttributes)
        gQ == IF a.has_indicator
              THEN from_biadjacency_matrix(a.array_indicator, Uuids(mdQ), Uuids(mdE),
                       IndicatorNodeAttributes, ExtensionNodeAttributes, "weight",
                       IndicatorEdgeAttributes)
              ELSE [err |-> "none", graph |-> EmptyGraph]
        sub == [A |-> SetNodeAttributes(gA.graph, mdP, 1),
                B |-> SetNodeAttributes(gB.graph, mdE, 1),
                Q |-> IF a.has_indicator THEN SetNodeAttributes(gQ.graph, mdQ, 1)
                      ELSE EmptyGraph]
    IN IF DataArrayError(a, P, mdP, mdE, mdQ) # "none"
       THEN [err |-> DataArrayError(a, P, mdP, mdE, mdQ), graph |-> EmptyGraph,
             sub |-> NoSubgraphs]
       ELSE IF gA.err # "none"
       THEN [err |-> gA.err, graph |-> EmptyGraph, sub |-> NoSubgraphs]
       ELSE IF gB.err # "none" THEN [err |-> gB.err, graph |-> EmptyGraph, sub |-> NoSubgraphs]
       ELSE IF gQ.err # "none" THEN [err |-> gQ.err, graph |-> EmptyGraph, sub |-> NoSubgraphs]
       ELSE [err |-> "none", graph |-> ComposeSubgraphs(sub, a.has_indicator), sub |-> sub]

\* the call: its result (err, graph), the sub-graphs it composed, and the
\* caller's arguments as the call leaves them (after)
graph_system_from_input_output_matrices(a) ==
    LET P == ArrayProductionAfterChecks(a)
        a1 == [a EXCEPT !.array_production = P]
        mp == ParseMetadata(a, P, a.list_dicts_production_node_metadata, 1, "production")
        me == IF mp.err # "none"
              THEN [err |-> mp.err, list |-> a.list_dicts_extension_node_metadata]
              ELSE ParseMetadata(a, P, a.list_dicts_extension_node_metadata, 1, "extension")
        mq == IF me.err # "none" \/ ~a.has_indicator
              THEN [err |-> me.err, list |-> a.list_dicts_indicator_node_metadata]
              ELSE ParseMetadata(a, P, a.list_dicts_indicator_node_metadata, 1, "indicator")
        a2 == [a1 EXCEPT !.list_dicts_production_node_metadata = mp.list,
                         !.list_dicts_extension_node_metadata = me.list,
                         !.list_dicts_indicator_node_metadata = mq.list]
    IN IF PreconditionError(a) # "none"
       THEN [err |-> PreconditionError(a), graph |-> EmptyGraph, sub |-> NoSubgraphs,
             after |-> a1]
       ELSE IF mq.err # "none"
       THEN [err |-> mq.err, graph |-> EmptyGraph, sub |-> NoSubgraphs, after |-> a2]
       ELSE LET b == BuildFromParsed(a, P, mp.list, me.list, mq.list)
            IN [err |-> b.err, graph |-> b.graph, sub |-> b.sub, after |-> a2]

(***************************************************************************)
(* greengraph/importers/databases/generic.py:                              *)
(* graph_system_from_node_and_edge_lists.  An edge of the edge lists is a  *)
(* triple <<source_key, target_key, amount>>; uuid4 holds the identifiers  *)
(* that the uuid.uuid4() calls of the relabelling return, one per node.    *)
(***************************************************************************)
\* lines 435-438 and 445-446: the keys written into one dict
TaggedDict(d, kind) ==
    LET tags == ("type" :> kind) @@ ("system" :> NameSystem) IN
    IF kind = "production" /\ "production" \notin DOMAIN d
    THEN Update(d, tags @@ ("production" :> 1))
    ELSE Update(d, tags)

\* lines 432-439 and 442-447 from dict k on: the dicts are written in place and
\* added as nodes until one lacks 'name' or 'unit'
RECURSIVE AddMetadataNodes(_, _, _, _)
AddMetadataNodes(G, list, k, kind) ==
    IF Evaluated(G) /\ k > Len(list) THEN [err |-> "none", graph |-> G, list |-> list]
    ELSE IF ~({"name", "unit"} \subseteq DOMAIN list[k])
         THEN [err |-> "ValueError", graph |-> G, list |-> list]
         ELSE AddMetadataNodes(
                  AddNode(G, list[k][IdField], TaggedDict(list[k], kind)),
                  [list EXCEPT ![k] = TaggedDict(list[k], kind)], k + 1, kind)

\* MultiDiGraph.add_edges_from(list, weight='flow') for triples (u, v, amount):
\* the third item is no dict, so it becomes the key of the edge, and the edge's
\* dict is {'weight': 'flow'}
RECURSIVE AddEdgesFrom(_, _, _)
AddEdgesFrom(G, list, k) ==
    IF Evaluated(G) /\ k > Len(list) THEN G
    ELSE AddEdgesFrom(AddEdgeKeyed(G, list[k][1], list[k][2], list[k][3],
                                   "weight" :> "flow"), list, k + 1)

\* mutant: the relabelled edges run from the target to the source
relabel_nodes_reversed(G, mapping) ==
    [nodes |-> [k \in 1..Len(G.nodes) |-> mapping[G.nodes[k]]],
     attr |-> [m \in {mapping[n] : n \in DOMAIN G.attr} |->
                  G.attr[CHOOSE n \in DOMAIN G.attr : mapping[n] = m]],
     edges |-> [k \in 1..Len(G.edges) |->
                  [G.edges[k] EXCEPT !.u = mapping[G.edges[k].v],
                                     !.v = mapping[G.edges[k].u]]]]

\* nx.relabel_nodes(G, mapping) with a one-to-one mapping onto new labels
relabel_nodes(G, mapping) ==
    [nodes |-> [k \in 1..Len(G.nodes) |-> mapping[G.nodes[k]]],
     attr |-> [m \in {mapping[n] : n \in DOMAIN G.attr} |->
                  G.attr[CHOOSE n \in DOMAIN G.attr : mapping[n] = m]],
     edges |-> [k \in 1..Len(G.edges) |->
                  [G.edges[k] EXCEPT !.u = mapping[@], !.v = mapping[@]]]]

\* lines 453-454
ProductionCountError(gA, list) ==
    IF Len(gA.nodes) # Len(list) THEN "ValueError" ELSE "none"

graph_system_from_node_and_edge_lists(a) ==
    LET nA == AddMetadataNodes(EmptyGraph, a.list_dicts_production_nodes_metadata, 1,
                               "production")
        nB == IF nA.err # "none"
              THEN [err |-> nA.err, graph |-> EmptyGraph,
                    list |-> a.list_dicts_extension_nodes_metadata]
              ELSE AddMetadataNodes(EmptyGraph, a.list_dicts_extension_nodes_metadata, 1,
                                    "extension")
        a1 == [a EXCEPT !.list_dicts_production_nodes_metadata = nA.list,
                        !.list_dicts_extension_nodes_metadata = nB.list]
        gA == AddEdgesFrom(nA.graph, a.list_tuples_production_edges, 1)
        gB == AddEdgesFrom(nB.graph, a.list_tuples_extension_edges, 1)
        G == compose(gA, gB)
        sub == [A |-> gA, B |-> gB, Q |-> EmptyGraph]
        mapping == [n \in DOMAIN G.attr |->
                       a.uuid4[CHOOSE k \in 1..Len(G.nodes) : G.nodes[k] = n]]
    IN IF nB.err # "none"
       THEN [err |-> nB.err, graph |-> EmptyGraph, sub |-> NoSubgraphs, after |-> a1]
       ELSE IF ProductionCountError(gA, a.list_dicts_production_nodes_metadata) # "none"
       THEN [err |-> ProductionCountError(gA, a.list_dicts_production_nodes_metadata),
             graph |-> EmptyGraph, sub |-> NoSubgraphs, after |-> a1]
       ELSE [err |-> "none",
             graph |-> IF a.assign_new_uuids THEN relabel_nodes(G, mapping) ELSE G,
             sub |-> sub, after |-> a1]

(***************************************************************************)
(* greengraph/math/conversion.py: _generate_matrices_from_graph.           *)
(* A sort-attribute argument is [given |-> FALSE] for None, else the       *)
(* attribute names.  A quotient of the normalisation is a pair <<n, d>>.   *)
(***************************************************************************)
NoSort == [given |-> FALSE, keys |-> <<>>]
SortBy(keys) == [given |-> TRUE, keys |-> keys]

\* attr['type'] is read of every node of G
SomeNodeLacksType(G) == \E n \in DOMAIN G.attr : "type" \notin DOMAIN G.attr[n]

RECURSIVE SelectType(_, _, _)
SelectType(G, t, k) ==
    IF k > Len(G.nodes) THEN <<>>
    ELSE IF G.attr[G.nodes[k]]["type"] = t
         THEN <<G.nodes[k]>> \o SelectType(G, t, k + 1)
         ELSE SelectType(G, t, k + 1)

\* [node for node, attr in G.nodes(data=True) if attr['type'] == t]
NodesOfType(G, t) == SelectType(G, t, 1)

\* G.nodes[node].get(key, None)
HasAttr(G, n, key) == key \in DOMAIN G.attr[n]

\* the first position at which the key tuples of n1 and n2 differ, 0 if none
FirstDifference(G, keys, n1, n2) ==
    LET diff == {i \in 1..Len(keys) :
                    \/ HasAttr(G, n1, keys[i]) # HasAttr(G, n2, keys[i])
                    \/ /\ HasAttr(G, n1, keys[i]) /\ HasAttr(G, n2, keys[i])
                       /\ G.attr[n1][keys[i]] # G.attr[n2][keys[i]]}
    IN IF diff = {} THEN 0 ELSE CHOOSE i \in diff : \A j \in diff : i <= j

\* key(n1) < key(n2) compares None with something: TypeError
Incomparable(G, sort, n1, n2) ==
    /\ sort.given
    /\ LET i == FirstDifference(G, sort.keys, n1, n2)
       IN i # 0 /\ (~HasAttr(G, n1, sort.keys[i]) \/ ~HasAttr(G, n2, sort.keys[i]))

\* key(n1) < key(n2) for the lambda of lines 26-29
KeyLess(G, sort, n1, n2) ==
    IF ~sort.given THEN n1 < n2
    ELSE LET i == FirstDifference(G, sort.keys, n1, n2)
         IN i # 0 /\ G.attr[n1][sort.keys[i]] < G.attr[n2][sort.keys[i]]

\* n inserted into the sorted list behind every element that is not greater
RECURSIVE InsertSorted(_, _, _, _)
InsertSorted(G, sort, sorted, n) ==
    IF sorted = <<>> THEN <<n>>
    ELSE IF KeyLess(G, sort, n, Head(sorted)) THEN <<n>> \o sorted
    ELSE <<Head(sorted)>> \o InsertSorted(G, sort, Tail(sorted), n)

RECURSIVE SortedFrom(_, _, _, _)
SortedFrom(G, sort, list, k) ==
    IF k = 0 THEN <<>>
    ELSE InsertSorted(G, sort, SortedFrom(G, sort, list, k - 1), list[k])

\* sorted(list, key=lambdafunction_sort_keys): a stable sort
Sorted(G, sort, list) == SortedFrom(G, sort, list, Len(list))

SortTypeError(G, sort, list) ==
    \E i, j \in 1..Len(list) : Incomparable(G, sort, list[i], list[j])

EdgeWeight(e, weight) == IF weight \in DOMAIN e.attr THEN e.attr[weight] ELSE 1

\* nx.algorithms.bipartite.biadjacency_matrix(G, row_order, column_order,
\* dtype=float, weight=weight, format='dense'): entry [r, c] is the sum of
\* d.get(weight, 1) over the edges row_order[r] -> column_order[c]
biadjacency_matrix(G, row_order, column_order, weight) ==
    LET hit(e) == e.u \in Range(row_order) /\ e.v \in Range(column_order)
    IN IF Len(row_order) = 0 THEN [err |-> "NetworkXError", data |-> <<>>]
       ELSE IF Len(G.edges) # 0 /\ ~\E k \in 1..Len(G.edges) : hit(G.edges[k])
       THEN [err |-> "ValueError", data |-> <<>>]
       ELSE [err |-> "none",
             data |-> [r \in 1..Len(row_order) |-> [c \in 1..Len(column_order) |->
                 SumSeq([k \in 1..Len(G.edges) |->
                     IF G.edges[k].u = row_order[r] /\ G.edges[k].v = column_order[c]
                     THEN EdgeWeight(G.edges[k], weight) ELSE 0])]]]

\* mutant: every entry is divided by the first element of the vector
DivideByVector_first(M, v) ==
    [r \in 1..NRows(M) |-> [c \in 1..NCols(M) |-> <<M[r][c], v[1]>>]]

\* M / array_production: numpy broadcasts the vector along the last axis
DivideByVector(M, v) ==
    [r \in 1..NRows(M) |-> [c \in 1..NCols(M) |-> <<M[r][c], v[c]>>]]

NoMatrices ==
    [err |-> "none", A |-> NoArray, Anorm |-> <<>>, B |-> NoArray, Bnorm |-> <<>>,
     Q |-> NoArray, hasQ |-> FALSE]
ExtractionRaised(e) == [NoMatrices EXCEPT !.err = e]
NoOptions == <<>>

DataArray(data, rows, cols) ==
    [data |-> data, rows |-> rows, cols |-> cols, format |-> "dense"]

\* the call with matrixformat='dense'; wantA, wantB, wantQ are the flags A, B, Q
_generate_matrices_from_graph(G, wantA, wantB, wantQ, A_sort_attributes, B_sort_attributes, Q_sort_attributes) ==
    IF ~wantA THEN ExtractionRaised("ValueError")
    ELSE IF ~wantB /\ wantQ THEN ExtractionRaised("ValueError")
    ELSE IF SomeNodeLacksType(G) THEN ExtractionRaised("KeyError")
    ELSE IF SortTypeError(G, A_sort_attributes, NodesOfType(G, "production"))
    THEN ExtractionRaised("TypeError")
    ELSE
    LET uuidsA == Sorted(G, A_sort_attributes, NodesOfType(G, "production"))
        mA == biadjacency_matrix(G, uuidsA, uuidsA, "flow")
        noProduction == \E k \in 1..Len(uuidsA) : ~HasAttr(G, uuidsA[k], "production")
        array_production == [k \in 1..Len(uuidsA) |-> G.attr[uuidsA[k]]["production"]]
        listB == NodesOfType(G, "extension")
        \* line 61: the lambda reads the unbound name sort_keys when it is called
        uuidsB == Sorted(G, NoSort, listB)
        mB == biadjacency_matrix(G, uuidsB, uuidsA, "flow")
        listQ == NodesOfType(G, "indicator")
        uuidsQ == Sorted(G, NoSort, listQ)
        mQ == biadjacency_matrix(G, uuidsQ, uuidsB, "flow")
    IN IF mA.err # "none" THEN ExtractionRaised(mA.err)
       ELSE IF noProduction THEN ExtractionRaised("KeyError")
       ELSE IF ~wantB THEN ExtractionRaised("UnboundLocalError")
       ELSE IF B_sort_attributes.given /\ listB # <<>> THEN ExtractionRaised("NameError")
       ELSE IF mB.err # "none" THEN ExtractionRaised(mB.err)
       ELSE IF wantQ /\ Q_sort_attributes.given /\ listQ # <<>>
       THEN ExtractionRaised("NameError")
       ELSE IF wantQ /\ mQ.err # "none" THEN ExtractionRaised(mQ.err)
       ELSE [err |-> "none",
             A |-> DataArray(mA.data, uuidsA, uuidsA),
             Anorm |-> DivideByVector(mA.data, array_production),
             B |-> DataArray(mB.data, uuidsB, uuidsA),
             Bnorm |-> DivideByVector(mB.data, array_production),
             Q |-> IF wantQ THEN DataArray(mQ.data, uuidsQ, uuidsB) ELSE NoArray,
             hasQ |-> wantQ]

(***************************************************************************)
(* The calling script of the solve engine (tests/test_math_matrix.py):     *)
(* a technosphere matrix and a demand are chosen, the production vector    *)
(* is computed, then a biosphere matrix is chosen and the inventory        *)
(* vector is computed from the production vector.                          *)
(***************************************************************************)
ProdOrder == <<"A", "B", "C">>
UnknownNode == "Z"
DemandAmounts == {1, 100}
Formats == {"dense", "csr"}

\* square matrices: any strictly lower triangle, and a feedback entry 0 or 1
\* in the top right corner (it makes I - A singular or non-unimodular)
TechData(n) ==
    { [r \in 1..n |-> [c \in 1..n |->
          IF r > c THEN low[<<r, c>>]
          ELSE IF r = 1 /\ c = n THEN corner ELSE 0]] :
        low \in [{rc \in (1..n) \X (1..n) : rc[1] > rc[2]} -> 0..MaxEntry],
        corner \in 0..1 }

TechArrays ==
    UNION { { [data |-> d, rows |-> SubSeq(ProdOrder, 1, n),
               cols |-> SubSeq(ProdOrder, 1, n), format |-> fmt] :
                d \in TechData(n), fmt \in Formats } : n \in 1..Len(ProdOrder) }

\* a dict has distinct keys; its items come in insertion order
Demands(rows) ==
    UNION { { d \in [1..k -> (Range(rows) \cup {UnknownNode}) \X DemandAmounts] :
                Injective([i \in 1..k |-> d[i][1]]) } : k \in 0..MaxDemandLen }

\* biosphere data: the rows of the example of the specification, cut to n columns
BioRows == { <<4, 3, 2>>, <<0, 1, 0>> }
BioData(n) ==
    { <<SubSeq(r, 1, n)>> : r \in BioRows } \cup
    { <<SubSeq(r1, 1, n), SubSeq(r2, 1, n)>> : r1 \in BioRows, r2 \in BioRows }
ExtOrder == <<"alpha", "beta">>

\* column labels of B: any arrangement of n distinct labels, or one label short
BioCols(n) ==
    { s \in [1..n -> Range(ProdOrder) \cup {UnknownNode}] : Injective(s) }

BioArrays(n) ==
    { [data |-> d, rows |-> SubSeq(ExtOrder, 1, Len(d)), cols |-> c, format |-> "dense"] :
        d \in BioData(n), c \in BioCols(n) }
    \cup
    { [data |-> d, rows |-> SubSeq(ExtOrder, 1, Len(d)),
       cols |-> SubSeq(ProdOrder, 1, n - 1), format |-> "dense"] :
        d \in BioData(n - 1) }

InitSolve ==
    /\ pc = "solve_start"
    /\ A \in TechArrays
    /\ demand \in Demands(A.rows)
    /\ f = <<>>
    /\ x = NoVector
    /\ B = NoArray
    /\ g = NoVector
    /\ inventory_split = <<>>
    /\ g_matrix = NoInventoryMatrix
    /\ cache_dir = EmptyCache /\ downloads = 0 /\ loaded = NothingLoaded
    /\ h = NoVector /\ validated = NotValidated /\ list_nodes = NoNodes
    /\ args = NoArguments
    /\ built = NoGraph
    /\ opts = NoOptions
    /\ matrices = NoMatrices

CallProductionVector ==
    /\ pc = "solve_start"
    /\ f' = DemandVector(A, demand).f
    /\ x' = calculate_production_vector(A, demand)
    /\ pc' = IF x'.err = "none" THEN "have_x" ELSE "x_raised"
    /\ UNCHANGED <<A, demand, B, g, args, built, opts, matrices, inventory_split, g_matrix, cache_dir, downloads, loaded, h, validated, list_nodes>>

CallInventoryVector ==
    /\ pc = "have_x"
    /\ \E b \in BioArrays(Len(x.rows)) :
         /\ B' = b
         /\ g' = calculate_inventory_vector(x, b)
    /\ pc' = IF g'.err = "none" THEN "have_g" ELSE "g_raised"
    /\ UNCHANGED <<A, demand, f, x, args, built, opts, matrices, inventory_split, g_matrix, cache_dir, downloads, loaded, h, validated, list_nodes>>

NextSolve == CallProductionVector \/ CallInventoryVector

SpecSolve == InitSolve /\ [][NextSolve]_vars

\* the script continued (tests/test_math_matrix.py, lines 83-90): the
\* categories 'system1' and 'system2' with lists of nodes.  The nodes of a
\* category are those that member assigns to it, in the order of x's labels
\* or in the reverse order; member[n] is the set of the categories of node n,
\* a list may name a node that x does not have, and no list is empty.
InventorySplits(rows) ==
    LET Reverse(s) == [k \in 1..Len(s) |-> s[Len(s) + 1 - k]]
        NodesOfCategory(member, c) ==
            LET pick[k \in 0..Len(rows)] ==
                    IF k = 0 THEN <<>>
                    ELSE IF c \in member[k] THEN Append(pick[k - 1], rows[k])
                    ELSE pick[k - 1]
            IN pick[Len(rows)]
    IN { [c \in 1..2 |-> <<(<<"system1", "system2">>)[c],
                           IF reversed THEN Reverse(NodesOfCategory(member, c))
                           ELSE NodesOfCategory(member, c)>>] :
           member \in {m \in [1..Len(rows) -> (SUBSET {1, 2})] :
                          \A c \in 1..2 : \E n \in 1..Len(rows) : c \in m[n]},
           reversed \in BOOLEAN }
       \cup { << <<"system1", rows>> >>,
              << <<"system1", rows>>, <<"system2", <<UnknownNode>> >> >> }

InitSplit ==
    /\ InitSolve
    /\ A.format = "dense"
    /\ Len(A.rows) = Len(ProdOrder)
    /\ Len(demand) = 1

\* called after calculate_inventory_vector has returned, or by a caller that
\* holds x and B and has not called calculate_inventory_vector
CallInventoryMatrix ==
    /\ pc \in {"have_g", "have_B"}
    /\ \E split \in InventorySplits(x.rows) :
         /\ inventory_split' = split
         /\ g_matrix' = calculate_inventory_matrix(x, split, B)
    /\ pc' = IF g_matrix'.err = "none" THEN "have_g_matrix" ELSE "g_matrix_raised"
    /\ UNCHANGED <<A, demand, f, x, B, g, args, built, opts, matrices, cache_dir, downloads, loaded, h, validated, list_nodes>>

NextSplit == CallProductionVector \/ CallInventoryVector \/ CallInventoryMatrix

SpecSplit == InitSplit /\ [][NextSplit]_vars

\* a caller of calculate_inventory_matrix alone: x is a production vector that
\* calculate_production_vector has returned for a demand of node A, B is any
\* biosphere array
InitInventoryMatrix ==
    /\ pc = "have_B"
    /\ A \in {a \in TechArrays : /\ a.format = "dense" /\ Len(a.rows) = Len(ProdOrder)
                                 /\ \A r, c \in 1..Len(a.rows) : a.data[r][c] <= 1}
    /\ demand \in {d \in Demands(A.rows) : Len(d) = 1 /\ d[1][1] = ProdOrder[1]}
    /\ f = DemandVector(A, demand).f
    /\ x = calculate_production_vector(A, demand)
    /\ x.err = "none"
    /\ B \in BioArrays(Len(x.rows))
    /\ g = NoVector
    /\ inventory_split = <<>>
    /\ g_matrix = NoInventoryMatrix
    /\ cache_dir = EmptyCache /\ downloads = 0 /\ loaded = NothingLoaded
    /\ h = NoVector /\ validated = NotValidated /\ list_nodes = NoNodes
    /\ args = NoArguments
    /\ built = NoGraph
    /\ opts = NoOptions
    /\ matrices = NoMatrices

NextInventoryMatrix == CallInventoryMatrix

SpecInventoryMatrix == InitInventoryMatrix /\ [][NextInventoryMatrix]_vars

(***************************************************************************)
(* The calling script of the graph constructors (the module script of      *)
(* greengraph/math/conversion.py): a graph is built from the caller's      *)
(* arguments, then the matrices are extracted from it.  Names and node     *)
(* identifiers are strings in the code; the model numbers them, and the    *)
(* order of the numbers stands for the order of the strings.               *)
(***************************************************************************)
Kinds == {"production", "extension", "indicator"}
FirstName == [production |-> 10, extension |-> 20, indicator |-> 30]
FirstUuid == [production |-> 100, extension |-> 200, indicator |-> 300]
Unit == "kg"

Record(name) == ("name" :> name) @@ ("unit" :> Unit)
Without(d, key) == [k \in (DOMAIN d) \ {key} |-> d[k]]

\* how the caller names the records: in ascending or descending order, one
\* name twice in a list, or one name in the lists of two node types
NameSchemes ==
    {"ascending", "descending", "production_twice", "extension_twice",
     "extension_as_production", "indicator_as_extension"}

NameOf(kind, n, k, scheme) ==
    IF scheme = "descending" THEN FirstName[kind] + (n + 1 - k)
    ELSE IF scheme = "production_twice" /\ kind = "production" /\ k = 2
    THEN FirstName[kind] + 1
    ELSE IF scheme = "extension_twice" /\ kind = "extension" /\ k = 2
    THEN FirstName[kind] + 1
    ELSE IF scheme = "extension_as_production" /\ kind = "extension" /\ k = 1
    THEN FirstName["production"] + 1
    ELSE IF scheme = "indicator_as_extension" /\ kind = "indicator" /\ k = 1
    THEN FirstName["extension"] + 1
    ELSE FirstName[kind] + k

MetadataList(kind, n, scheme) == [k \in 1..n |-> Record(NameOf(kind, n, k, scheme))]

\* the values of the successive uuid.uuid4() calls: fresh, in either order
UuidOrders == {"ascending", "descending"}
Uuid4(order, n) ==
    [kind \in Kinds |-> [k \in 1..n[kind] |->
        IF order = "ascending" THEN FirstUuid[kind] + k
        ELSE FirstUuid[kind] + (n[kind] + 1 - k)]]

NamingChoices ==
    { [assign_new_uuids |-> FALSE, scheme |-> sch, order |-> "ascending"] :
        sch \in NameSchemes }
    \cup
    { [assign_new_uuids |-> TRUE, scheme |-> "ascending", order |-> o] : o \in UuidOrders }

\* the r x c upper left part of M, filled with zeros where M ends
Cut(M, r, c) ==
    [i \in 1..r |-> [j \in 1..c |->
        IF i <= Len(M) /\ j <= Len(M[i]) THEN M[i][j] ELSE 0]]

Ones(r, c) == [i \in 1..r |-> [j \in 1..c |-> 1]]

\* the example system, the fixture of the tests, a matrix with negative
\* entries, and the zero matrix
TechSamples ==
    { << <<0, 0, 0>>, <<1, 0, 0>>, <<2, 3, 0>> >>,
      << <<10, 0, 0>>, <<20, 10, 2>>, <<0, 33, 10>> >>,
      << <<5, 0, 0>>, <<-1, 5, 0>>, <<-2, -3, 5>> >>,
      << <<0>> >> }
ExtSamples ==
    { << <<4, 3, 2>>, <<0, 1, 0>>, <<7, 0, 5>> >>,
      << <<0, -3, 2>>, <<1, 0, 0>>, <<0, 0, 6>> >>,
      << <<0>> >> }
IndSamples ==
    { << <<2, 13, 1>>, <<0, 5, 0>> >>,
      << <<0, 1, 0>>, <<3, 0, 0>> >> }
Conventions == {"I-A", "A", "B"}

MatrixArguments(naming, convention, P, E, has_q, Q, mdP, mdE, has_md, mdQ) ==
    [assign_new_uuids |-> naming.assign_new_uuids,
     matrix_convention |-> convention,
     array_production |-> P,
     array_extension |-> E,
     has_indicator |-> has_q,
     array_indicator |-> IF has_q THEN Q ELSE <<>>,
     list_dicts_production_node_metadata |-> mdP,
     list_dicts_extension_node_metadata |-> mdE,
     has_indicator_metadata |-> has_md,
     list_dicts_indicator_node_metadata |-> IF has_md THEN mdQ ELSE <<>>,
     uuid4 |-> Uuid4(naming.order,
                     [production |-> Len(mdP), extension |-> Len(mdE),
                      indicator |-> Len(mdQ)])]

\* arguments of every combination of shapes and list lengths
ShapeArguments ==
    { MatrixArguments([assign_new_uuids |-> FALSE, order |-> "ascending"], convention,
          Ones(sp[1], sp[2]), Ones(se[1], se[2]), hq[1], Ones(sq[1], sq[2]),
          MetadataList("production", len[1], "ascending"),
          MetadataList("extension", len[2], "ascending"), hq[2],
          MetadataList("indicator", len[3], "ascending")) :
        sp \in (1..MaxProd) \X (1..MaxProd),
        se \in (1..MaxExt) \X (1..MaxProd),
        sq \in (1..MaxInd) \X (1..MaxExt),
        hq \in BOOLEAN \X BOOLEAN,
        len \in (1..MaxProd) \X (1..MaxExt) \X (1..MaxInd),
        convention \in {"I-A", "A"} }

\* arguments of matching shapes: the data, the convention and the names vary
ShapedArguments ==
    { MatrixArguments(naming, convention,
          Cut(dat[1], n[1], n[1]), Cut(dat[2], n[2], n[1]), n[3] > 0,
          Cut(dat[3], n[3], n[2]),
          MetadataList("production", n[1], naming.scheme),
          MetadataList("extension", n[2], naming.scheme), n[3] > 0,
          MetadataList("indicator", n[3], naming.scheme)) :
        naming \in NamingChoices, convention \in Conventions,
        dat \in TechSamples \X ExtSamples \X IndSamples,
        n \in (1..MaxProd) \X (1..MaxExt) \X (0..MaxInd) }

\* arguments of matching shapes in which one record lacks 'name' or 'unit'
Defects ==
    { d \in [kind : Kinds, key : {"name", "unit"}, k : 1..MaxProd] :
        d.k <= [production |-> MaxProd, extension |-> MaxExt, indicator |-> MaxInd][d.kind] }

Defective(list, d, kind) ==
    IF d.kind = kind THEN [list EXCEPT ![d.k] = Without(@, d.key)] ELSE list

DefectArguments ==
    { MatrixArguments(naming, "I-A",
          Cut(dat[1], MaxProd, MaxProd), Cut(dat[2], MaxExt, MaxProd), hq,
          Cut(dat[3], MaxInd, MaxExt),
          Defective(MetadataList("production", MaxProd, "ascending"), d, "production"),
          Defective(MetadataList("extension", MaxExt, "ascending"), d, "extension"), hq,
          Defective(MetadataList("indicator", MaxInd, "ascending"), d, "indicator")) :
        naming \in {c \in NamingChoices : c.scheme = "ascending"},
        dat \in TechSamples \X ExtSamples \X IndSamples,
        hq \in BOOLEAN,
        d \in Defects }

ConstructorArguments == ShapeArguments \cup ShapedArguments \cup DefectArguments

\* the arguments of the extraction: the flags B and Q (A is True) and the
\* sort attributes
Options ==
    { [A |-> TRUE, B |-> fl[1], Q |-> fl[2],
       A_sort_attributes |-> sa, B_sort_attributes |-> sb, Q_sort_attributes |-> sb] :
        fl \in {<<TRUE, FALSE>>, <<TRUE, TRUE>>, <<FALSE, FALSE>>},
        sa \in {NoSort, SortBy(<<"index">>), SortBy(<<"unit">>)},
        sb \in {NoSort, SortBy(<<"index">>)} }

SolveIdle ==
    /\ A = NoArray /\ demand = <<>> /\ f = <<>> /\ x = NoVector
    /\ B = NoArray /\ g = NoVector
    /\ inventory_split = <<>> /\ g_matrix = NoInventoryMatrix
    /\ cache_dir = EmptyCache /\ downloads = 0 /\ loaded = NothingLoaded
    /\ h = NoVector /\ validated = NotValidated /\ list_nodes = NoNodes

InitMatrices ==
    /\ pc = "io_start"
    /\ args \in ConstructorArguments
    /\ built = NoGraph
    /\ opts = NoOptions
    /\ matrices = NoMatrices
    /\ SolveIdle

CallGraphFromMatrices ==
    /\ pc = "io_start"
    /\ built' = graph_system_from_input_output_matrices(args)
    /\ pc' = IF built'.err = "none" THEN "built" ELSE "build_raised"
    /\ UNCHANGED <<A, demand, f, x, B, g, args, opts, matrices, inventory_split, g_matrix, cache_dir, downloads, loaded, h, validated, list_nodes>>

CallGenerateMatrices ==
    /\ pc = "built"
    /\ \E o \in Options :
         /\ opts' = o
         /\ matrices' = _generate_matrices_from_graph(built.graph, o.A, o.B, o.Q,
                            o.A_sort_attributes, o.B_sort_attributes,
                            o.Q_sort_attributes)
    /\ pc' = IF matrices'.err = "none" THEN "extracted" ELSE "extract_raised"
    /\ UNCHANGED <<A, demand, f, x, B, g, args, built, inventory_split, g_matrix, cache_dir, downloads, loaded, h, validated, list_nodes>>

NextMatrices == CallGraphFromMatrices \/ CallGenerateMatrices

SpecMatrices == InitMatrices /\ [][NextMatrices]_vars

(***************************************************************************)
(* The calling script of graph_system_from_node_and_edge_lists             *)
(* (greengraph/importers/characterization/ecoinvent.py).                   *)
(***************************************************************************)
ProductionKeys == <<FirstName["production"] + 1, FirstName["production"] + 2>>
ExtensionKeys == <<FirstName["extension"] + 1, FirstName["extension"] + 2>>
EdgeAmounts == {1, 2}

ProductionLists ==
    { <<Record(ProductionKeys[1])>>,
      <<Record(ProductionKeys[1]), Record(ProductionKeys[2])>>,
      <<Record(ProductionKeys[2]), Record(ProductionKeys[1])>>,
      <<Record(ProductionKeys[1]), Record(ProductionKeys[1])>>,
      <<Record(ProductionKeys[1]), Without(Record(ProductionKeys[2]), "unit")>>,
      <<Record(ProductionKeys[1]) @@ ("production" :> 5), Record(ProductionKeys[2])>> }

ExtensionLists ==
    { <<>>,
      <<Record(ExtensionKeys[1])>>,
      <<Record(ExtensionKeys[1]), Record(ExtensionKeys[2])>>,
      <<Record(ExtensionKeys[1]), Record(ExtensionKeys[1])>>,
      <<Record(ProductionKeys[1])>>,
      <<Record(ExtensionKeys[1]), Without(Record(ExtensionKeys[2]), "unit")>> }

ProductionEdges ==
    { <<ProductionKeys[2], ProductionKeys[1], amount>> : amount \in EdgeAmounts }
    \cup { <<ProductionKeys[1], ProductionKeys[2], 1>> }

ProductionEdgeLists ==
    UNION { [1..n -> ProductionEdges] : n \in 0..MaxEdges }

ExtensionEdgeLists ==
    { <<>>,
      << <<ProductionKeys[1], ExtensionKeys[1], 4>> >>,
      << <<ProductionKeys[1], ExtensionKeys[1], 4>>, <<ProductionKeys[2], ExtensionKeys[1], 3>> >>,
      << <<ProductionKeys[1], ExtensionKeys[1], 4>>, <<ProductionKeys[1], ExtensionKeys[1], 4>> >> }

ListKeys == Range(ProductionKeys) \cup Range(ExtensionKeys)

\* the values of the uuid.uuid4() calls of the relabelling, in either order
ListUuid4(order) ==
    [k \in 1..Cardinality(ListKeys) |->
        IF order = "ascending" THEN FirstUuid["production"] + k
        ELSE FirstUuid["production"] + (Cardinality(ListKeys) + 1 - k)]

ListArguments ==
    { [assign_new_uuids |-> naming.assign_new_uuids,
       list_dicts_production_nodes_metadata |-> mdP,
       list_dicts_extension_nodes_metadata |-> mdE,
       list_tuples_production_edges |-> eP,
       list_tuples_extension_edges |-> eE,
       uuid4 |-> ListUuid4(naming.order)] :
        naming \in {c \in NamingChoices : c.scheme = "ascending"},
        mdP \in ProductionLists, mdE \in ExtensionLists,
        eP \in ProductionEdgeLists, eE \in ExtensionEdgeLists }

InitLists ==
    /\ pc = "lists_start"
    /\ args \in ListArguments
    /\ built = NoGraph
    /\ opts = NoOptions
    /\ matrices = NoMatrices
    /\ SolveIdle

CallGraphFromLists ==
    /\ pc = "lists_start"
    /\ built' = graph_system_from_node_and_edge_lists(args)
    /\ pc' = IF built'.err = "none" THEN "built" ELSE "build_raised"
    /\ UNCHANGED <<A, demand, f, x, B, g, args, opts, matrices, inventory_split, g_matrix, cache_dir, downloads, loaded, h, validated, list_nodes>>

NextLists == CallGraphFromLists \/ CallGenerateMatrices

SpecLists == InitLists /\ [][NextLists]_vars

(***************************************************************************)
(* _generate_matrices_from_graph applied to graphs that a caller has made  *)
(* with networkx itself (add_node with type, production, unit and index,   *)
(* add_edge with flow): the nodes come in either order of their            *)
(* identifiers and the production amounts of the nodes vary.               *)
(***************************************************************************)
ProductionAmounts == {1, 2}

\* G.add_node(node, type=kind, unit='kg', index=k - 1) for the nodes of a list,
\* with production=amounts[k] for a production node
RECURSIVE AddTypedNodes(_, _, _, _, _)
AddTypedNodes(G, list, k, kind, amounts) ==
    IF Evaluated(G) /\ k > Len(list) THEN G
    ELSE AddTypedNodes(
             AddNode(G, list[k],
                 IF kind = "production"
                 THEN ("type" :> kind) @@ ("unit" :> Unit) @@ ("index" :> (k - 1))
                      @@ ("production" :> amounts[k])
                 ELSE ("type" :> kind) @@ ("unit" :> Unit) @@ ("index" :> (k - 1))),
             list, k + 1, kind, amounts)

\* the caller's graph: the nodes of the three types, then one edge with the
\* attribute flow for every non-zero entry of P (production to production),
\* of E (extension to production) and of Q (indicator to extension)
CallerGraph(ids, amounts, P, E, Q) ==
    LET nodes == AddTypedNodes(
                     AddTypedNodes(
                         AddTypedNodes(EmptyGraph, ids.production, 1, "production", amounts),
                         ids.extension, 1, "extension", <<>>),
                     ids.indicator, 1, "indicator", <<>>)
        gP == AddMatrixEdges(nodes, P, ids.production, ids.production, 1, "flow", EmptyDict)
        gE == AddMatrixEdges(gP, E, ids.extension, ids.production, 1, "flow", EmptyDict)
    IN AddMatrixEdges(gE, Q, ids.indicator, ids.extension, 1, "flow", EmptyDict)

CallerGraphs ==
    { CallerGraph(Uuid4(order, [production |-> n[1], extension |-> n[2], indicator |-> n[3]]),
                  amounts, Cut(dat[1], n[1], n[1]), Cut(dat[2], n[2], n[1]),
                  Cut(dat[3], n[3], n[2])) :
        order \in UuidOrders,
        n \in (1..MaxProd) \X (1..MaxExt) \X (0..MaxInd),
        amounts \in [1..MaxProd -> ProductionAmounts],
        dat \in TechSamples \X ExtSamples \X IndSamples }

InitExtract ==
    /\ pc = "built"
    /\ args = NoArguments
    /\ built \in {[NoGraph EXCEPT !.graph = G] : G \in CallerGraphs}
    /\ opts = NoOptions
    /\ matrices = NoMatrices
    /\ SolveIdle

NextExtract == CallGenerateMatrices

SpecExtract == InitExtract /\ [][NextExtract]_vars

(***************************************************************************)
(* The test of the download (tests/utility/test_download.py): files are    *)
(* loaded with any arguments, again and again, and the cache directory is  *)
(* removed at times.                                                       *)
(***************************************************************************)
InitDownload ==
    /\ pc = "download"
    /\ args = NoArguments
    /\ built = NoGraph
    /\ opts = NoOptions
    /\ matrices = NoMatrices
    /\ SolveIdle

CallLoadFile ==
    /\ pc = "download"
    /\ downloads < MaxDownloads
    /\ \E name_file \in {"test1.txt", "test2.txt"},
          name_dir_cache \in {"my_test_cache_dir", "useeio"},
          zenodo_record \in {"13242885", "15272306"},
          response \in {"ok", "timeout", "write_error"} :
         LET call == <<name_file, name_dir_cache, zenodo_record>>
             r == _load_file_from_zenodo_with_caching(cache_dir, name_file, name_dir_cache,
                      zenodo_record, response, downloads + 1)
         IN /\ cache_dir' = r.fs
            /\ downloads' = IF r.requested THEN downloads + 1 ELSE downloads
            /\ loaded' = [call |-> call, err |-> r.err, path |-> r.path,
                          repeated |-> \E p \in loaded.returned : p[1] = call,
                          returned |-> IF r.err = "none"
                                       THEN loaded.returned \cup {<<call, r.path>>}
                                       ELSE loaded.returned]
    /\ UNCHANGED <<pc, A, demand, f, x, B, g, args, built, opts, matrices, inventory_split, g_matrix, h, validated, list_nodes>>

\* remove_cache_dir(), line 43 of the test: the directory and all in it is gone
RemoveCacheDir ==
    /\ pc = "download"
    /\ cache_dir' = EmptyCache
    /\ loaded' = NothingLoaded
    /\ UNCHANGED <<pc, A, demand, f, x, B, g, args, built, opts, matrices, inventory_split, g_matrix, downloads, h, validated, list_nodes>>

NextDownload == CallLoadFile \/ RemoveCacheDir

SpecDownload == InitDownload /\ [][NextDownload]_vars

(***************************************************************************)
(* The tests of graph_from_matrix (tests/test_graph.py): a matrix, one or  *)
(* two node containers of strings or of integers, as plain nodes or as     *)
(* (node, dict) tuples, the amount attribute 'amount' and the common edge  *)
(* attributes of the tests.                                                *)
(***************************************************************************)
InitGraph ==
    /\ pc = "matrix_start"
    /\ args \in
         { [matrix |-> Cut(dat, shape[1], shape[2]),
            nodes_axis_0 |-> [k \in 1..n[1] |->
                LET node == IF integers THEN -k ELSE FirstName["production"] + k
                IN IF tuples THEN <<node, ProductionNodeAttributes>> ELSE <<node>>],
            has_axis_1 |-> n[2] > 0,
            nodes_axis_1 |-> [k \in 1..n[2] |->
                LET node == IF integers THEN -(MaxProd + k) ELSE FirstName["extension"] + k
                IN IF tuples THEN <<node, ExtensionNodeAttributes>> ELSE <<node>>],
            common_attributes_nodes_axis_0 |-> IF tuples THEN EmptyDict ELSE "unit" :> Unit,
            common_attributes_nodes_axis_1 |-> IF tuples THEN EmptyDict ELSE "unit" :> Unit,
            name_amount_attribute |-> "amount",
            common_attributes_edges |-> ("type" :> "flow") @@ ("unit" :> Unit)] :
           dat \in TechSamples,
           shape \in (1..MaxProd) \X (1..(MaxProd + 1)),
           n \in (1..MaxProd) \X (0..(MaxProd + 1)),
           tuples \in BOOLEAN,
           \* the nodes are strings ('N1', ... and 'A', ...) or integers
           integers \in BOOLEAN }
    /\ built = NoGraph
    /\ opts = NoOptions
    /\ matrices = NoMatrices
    /\ SolveIdle

CallGraphFromMatrix ==
    /\ pc = "matrix_start"
    /\ LET r == graph_from_matrix(args.matrix, args.nodes_axis_0, args.has_axis_1,
                    args.nodes_axis_1, args.common_attributes_nodes_axis_0,
                    args.common_attributes_nodes_axis_1, args.name_amount_attribute,
                    args.common_attributes_edges)
       IN built' = [NoGraph EXCEPT !.err = r.err, !.graph = r.graph]
    /\ pc' = IF built'.err = "none" THEN "graph_built" ELSE "graph_raised"
    /\ UNCHANGED <<A, demand, f, x, B, g, args, opts, matrices, inventory_split, g_matrix, cache_dir, downloads, loaded, h, validated, list_nodes>>

NextGraph == CallGraphFromMatrix

SpecGraph == InitGraph /\ [][NextGraph]_vars

(***************************************************************************)
(* The tests of the node validation (tests/test_core.py): a graph with the *)
(* node 'existing_node'; nodes are added and node attributes are validated *)
(* in any order.                                                           *)
(***************************************************************************)
InitCore ==
    /\ pc = "core"
    /\ args = NoArguments
    /\ built = [NoGraph EXCEPT !.graph =
                   AddNode(EmptyGraph, "existing_node",
                           [type |-> "production", production |-> 1, unit |-> Unit])]
    /\ opts = NoOptions
    /\ matrices = NoMatrices
    /\ SolveIdle

\* graph._validate_node_attributes(node_name, attributes) with the arguments
\* of the tests
CallValidateNodeAttributes ==
    /\ pc = "core"
    /\ \E node \in {<<>>, <<"existing_node">>, <<"new_node_1">>, <<"new_node_2">>},
          attributes \in {<<>>, <<[production |-> 100]>>, <<[type |-> "invalid_type"]>>,
                          <<[type |-> "production", production |-> 1, unit |-> Unit]>>,
                          <<[type |-> "extension", unit |-> Unit]>>} :
         validated' = [called |-> TRUE, node |-> node, attributes |-> attributes,
                       in_graph |-> node # <<>> /\ HasNode(built.graph, node[1]),
                       err |-> _validate_node_attributes(built.graph, node, attributes)]
    /\ UNCHANGED <<pc, A, demand, f, x, B, g, args, built, opts, matrices, inventory_split, g_matrix, cache_dir, downloads, loaded, h, list_nodes>>

\* graph.add_node(node, **attributes): the node is added, or the attributes
\* of a node of the graph are updated, when the validation passes
CallAddNode ==
    /\ pc = "core"
    /\ \E node \in {"existing_node", "new_node_1", "new_node_2"},
          attributes \in {[production |-> 100], [type |-> "invalid_type"],
                          [type |-> "production", production |-> 1, unit |-> Unit],
                          [type |-> "extension", unit |-> Unit]} :
         /\ _validate_node_attributes(built.graph, <<node>>, <<attributes>>) = "none"
         /\ built' = [built EXCEPT !.graph = AddNode(@, node, attributes)]
    /\ UNCHANGED <<pc, A, demand, f, x, B, g, args, opts, matrices, inventory_split, g_matrix, cache_dir, downloads, loaded, h, validated, list_nodes>>

NextCore == CallValidateNodeAttributes \/ CallAddNode

SpecCore == InitCore /\ [][NextCore]_vars

(***************************************************************************)
(* The pipeline: a graph is built from matrices, the matrices A, B and Q   *)
(* are extracted from it, and the vectors x, g and h are computed from     *)
(* these matrices for a demand on production nodes of the graph: any keys  *)
(* in any order, each with the amount 1.                                   *)
(***************************************************************************)
CallProductionVectorOfGraph ==
    /\ pc = "extracted"
    /\ \E dem \in UNION { { d \in [1..k -> Range(matrices.A.rows) \X {1}] :
                               Injective([i \in 1..k |-> d[i][1]]) } :
                           k \in 0..MaxDemandLen } :
         /\ A' = matrices.A
         /\ demand' = dem
         /\ f' = DemandVector(matrices.A, dem).f
         /\ x' = calculate_production_vector(matrices.A, dem)
    /\ pc' = IF x'.err = "none" THEN "graph_x" ELSE "graph_x_raised"
    /\ UNCHANGED <<B, g, args, built, opts, matrices, inventory_split, g_matrix, cache_dir, downloads, loaded, h, validated, list_nodes>>

CallInventoryVectorOfGraph ==
    /\ pc = "graph_x"
    /\ B' = matrices.B
    /\ g' = calculate_inventory_vector(x, matrices.B)
    /\ pc' = IF g'.err = "none" THEN "graph_g" ELSE "graph_g_raised"
    /\ UNCHANGED <<A, demand, f, x, args, built, opts, matrices, inventory_split, g_matrix, cache_dir, downloads, loaded, h, validated, list_nodes>>

CallImpactVector ==
    /\ pc = "graph_g"
    /\ matrices.hasQ
    /\ h' = calculate_impact_vector(g, matrices.Q)
    /\ pc' = IF h'.err = "none" THEN "graph_h" ELSE "graph_h_raised"
    /\ UNCHANGED <<A, demand, f, x, B, g, args, built, opts, matrices, inventory_split, g_matrix, cache_dir, downloads, loaded, validated, list_nodes>>

NextPipeline ==
    \/ CallGraphFromMatrices \/ CallGenerateMatrices
    \/ CallProductionVectorOfGraph \/ CallInventoryVectorOfGraph \/ CallImpactVector

SpecPipeline == InitMatrices /\ [][NextPipeline]_vars

(***************************************************************************)
(* The test of _get_nodes_from_node_container (tests/test_graph.py): a     *)
(* container of nodes and of (node, attribute dict) tuples.  The nodes are *)
(* the hashable values of the test ('N1', 2, None, ('tuple_node',)) and    *)
(* the empty str, the empty tuple and a frozenset.                         *)
(***************************************************************************)
InitContainer ==
    /\ pc = "container"
    /\ args \in
         LET str(s) == [type |-> "str", value |-> s]
             tuple(s) == [type |-> "tuple", value |-> s]
             dict(m) == [type |-> "dict", value |-> m]
             nodes == { str(<<78, 49>>), str(<<>>), [type |-> "int", value |-> 2],
                        [type |-> "NoneType", value |-> 0],
                        tuple(<<str(<<84>>)>>), tuple(<<>>),
                        [type |-> "frozenset", value |-> {1}] }
             pairs == { tuple(<<n, dict([attr |-> 1])>>) : n \in nodes }
         IN UNION { [1..n -> nodes \cup pairs] : n \in 0..MaxContainer }
    /\ built = NoGraph
    /\ opts = NoOptions
    /\ matrices = NoMatrices
    /\ SolveIdle

CallGetNodes ==
    /\ pc = "container"
    /\ list_nodes' = _get_nodes_from_node_container(args, 1, <<>>)
    /\ pc' = IF list_nodes'.err = "none" THEN "have_nodes" ELSE "nodes_raised"
    /\ UNCHANGED <<A, demand, f, x, B, g, args, built, opts, matrices, inventory_split, g_matrix, cache_dir, downloads, loaded, h, validated>>

NextContainer == CallGetNodes

SpecContainer == InitContainer /\ [][NextContainer]_vars

(***************************************************************************)
(* Claims about the solve engine, checked under SpecSolve.                 *)
(***************************************************************************)
ExampleA == << <<0, 0, 0>>, <<1, 0, 0>>, <<2, 3, 0>> >>
ExampleDemand == << <<"A", 100>> >>
ExampleBioRow == << <<4, 3, 2>> >>

AfterProduction == pc \in {"have_x", "x_raised", "have_g", "g_raised"}
AfterInventory == pc \in {"have_g", "g_raised"}
ExampleSolved ==
    /\ AfterProduction
    /\ A.data = ExampleA /\ A.rows = ProdOrder /\ A.format = "dense"
    /\ demand = ExampleDemand
ExampleInventoried ==
    /\ ExampleSolved /\ AfterInventory
    /\ B.data = ExampleBioRow /\ B.cols = ProdOrder

\* C1: for A = [[0,0,0],[1,0,0],[2,3,0]] over [A,B,C] and demand {A: 100} the
\* production vector is x = [100, 100, 500] labelled by A's row labels, and with
\* the biosphere row [4,3,2] aligned to [A,B,C] the inventory is g = 1700.
C1_SolveExample ==
    /\ ExampleSolved =>
         /\ x.err = "none"
         /\ x.num = <<100, 100, 500>> /\ x.den = 1
         /\ x.rows = A.rows
    /\ ExampleInventoried =>
         /\ g.err = "none"
         /\ g.num = <<1700>> /\ g.den = 1

C1_Witness == ExampleInventoried /\ pc = "have_g"

DemandKeys == {demand[k][1] : k \in 1..Len(demand)}
AmountOf(node) == (CHOOSE k \in 1..Len(demand) : demand[k][1] = node)
UnknownKeyAt(k) == k \in 1..Len(demand) /\ ~IsIn(demand[k][1], A.rows)

\* C2: calculate_production_vector raises and returns no vector whenever some
\* demand key is not a row label of A, wherever that key stands in the mapping;
\* when every key is a row label, f holds each key's amount at the position of
\* that label and zero everywhere else.
C2_UnknownDemandNode ==
    AfterProduction =>
        /\ (\E k \in 1..Len(demand) : UnknownKeyAt(k)) =>
              /\ x.err = "ValueError"
              /\ x.num = <<>> /\ x.rows = <<>>
              /\ pc = "x_raised"
        /\ (\A k \in 1..Len(demand) : ~UnknownKeyAt(k)) =>
              /\ Len(f) = Len(A.rows)
              /\ \A i \in 1..Len(A.rows) :
                    f[i] = IF A.rows[i] \in DemandKeys
                           THEN demand[AmountOf(A.rows[i])][2] ELSE 0

\* the unknown key comes last, after a key that is a row label
C2_Witness ==
    /\ pc = "x_raised"
    /\ Len(demand) = 2
    /\ ~UnknownKeyAt(1) /\ UnknownKeyAt(2)
    /\ x.err = "ValueError"

\* C3: calculate_inventory_vector raises and returns no vector whenever the
\* sequence of B's column labels differs from the sequence of x's row labels, a
\* permutation of the same labels included; when the sequences are equal it
\* returns g = B x labelled by B's row labels.
C3_AlignmentEnforced ==
    AfterInventory =>
        /\ B.cols # x.rows =>
              /\ g.err # "none" /\ g.num = <<>> /\ pc = "g_raised"
        /\ B.cols = x.rows =>
              /\ g.err = "none" /\ pc = "have_g"
              /\ g.rows = B.rows
              /\ Len(g.num) = Len(B.data)
              /\ \A r \in 1..Len(B.data) :
                    g.num[r] * x.den =
                    g.den * SumSeq([c \in 1..Len(x.num) |-> B.data[r][c] * x.num[c]])

\* B's column labels are a proper permutation of x's row labels
C3_Witness ==
    /\ pc = "g_raised"
    /\ Len(B.cols) = Len(x.rows)
    /\ Range(B.cols) = Range(x.rows)
    /\ B.cols # x.rows
    /\ g.err = "ValueError"

\* C21: a technosphere matrix held in sparse representation is accepted by
\* calculate_production_vector: when every demand key is a row label, the call
\* does not raise a TypeError, and when I - A is invertible it returns the
\* solution of (I - A) x = f labelled by A's row labels.
C21_SparseAccepted ==
    (AfterProduction /\ A.format = "csr" /\ \A k \in 1..Len(demand) : ~UnknownKeyAt(k)) =>
        /\ x.err # "TypeError"
        /\ Det(EyeMinus(A.data)) # 0 =>
              /\ x.err = "none" /\ pc \in {"have_x", "have_g", "g_raised"}
              /\ x.rows = A.rows
              /\ x.num = LinalgSolve(EyeMinus(A.data), f).num
              /\ x.den = LinalgSolve(EyeMinus(A.data), f).den

(***************************************************************************)
(* Claims about calculate_inventory_matrix, checked under SpecSplit.       *)
(***************************************************************************)
AfterInventoryMatrix == pc \in {"have_g_matrix", "g_matrix_raised"}

CategoriesOf(node) ==
    {c \in 1..Len(inventory_split) : IsIn(node, inventory_split[c][2])}

\* every node of x is in the list of exactly one category, and the lists
\* name nodes of x only
IsPartition ==
    /\ \A n \in 1..Len(x.rows) : Cardinality(CategoriesOf(x.rows[n])) = 1
    /\ \A c \in 1..Len(inventory_split) :
          /\ Range(inventory_split[c][2]) \subseteq Range(x.rows)
          /\ Injective(inventory_split[c][2])

\* numerator n of x_c: that of x for a node of category c, zero elsewhere
SplitProduction(c, n) == IF c \in CategoriesOf(x.rows[n]) THEN x.num[n] ELSE 0

\* C17: for an inventory_split that is a partition of the nodes of x the call
\* returns G on B's row labels and the categories, column c of G is B . x_c,
\* where x_c is x on the nodes of c and zero elsewhere, and the columns of G
\* sum to the inventory vector calculate_inventory_vector(x, B).
C17_InventoryMatrixSplits ==
    (AfterInventoryMatrix /\ IsPartition) =>
        /\ pc = "have_g_matrix"
        /\ g_matrix.rows = B.rows
        /\ g_matrix.cols = [c \in 1..Len(inventory_split) |-> inventory_split[c][1]]
        /\ g_matrix.den = x.den
        /\ \A r \in 1..Len(B.rows) :
              /\ \A c \in 1..Len(inventory_split) :
                    g_matrix.num[r][c]
                        = SumSeq([n \in 1..Len(x.rows) |->
                                      B.data[r][n] * SplitProduction(c, n)])
              /\ SumSeq(g_matrix.num[r]) * g.den = g.num[r] * g_matrix.den

\* a partition into two categories whose lists are not in the order of x's
\* labels, with a non-zero inventory in both columns of G
C17_Witness ==
    /\ pc = "have_g_matrix"
    /\ IsPartition
    /\ Len(inventory_split) = 2
    /\ \E c \in 1..2 :
          /\ Len(inventory_split[c][2]) = 2
          /\ ~\E k \in 1..2 : SubSeq(x.rows, k, k + 1) = inventory_split[c][2]
    /\ Len(B.rows) = 2
    /\ \A c \in 1..2 : \E r \in 1..2 : g_matrix.num[r][c] # 0

\* C24: calculate_inventory_matrix raises and returns no matrix whenever the
\* sequence of B's column labels is not the sequence of x's row labels, as
\* calculate_inventory_vector does.
C24_InventoryMatrixAlignment ==
    (AfterInventoryMatrix /\ B.cols # x.rows) =>
        /\ g_matrix.err # "none"
        /\ g_matrix.num = <<>>
        /\ pc = "g_matrix_raised"
        /\ calculate_inventory_vector(x, B).err # "none"

(***************************************************************************)
(* Claims about graph_system_from_input_output_matrices and the            *)
(* extraction, checked under SpecMatrices.                                 *)
(***************************************************************************)
AfterBuild == pc \in {"built", "build_raised", "extracted", "extract_raised"}
Built == pc \in {"built", "extracted", "extract_raised"}
AfterExtraction == pc \in {"extracted", "extract_raised"}
ByIndex == SortBy(<<"index">>)

\* the metadata list of a node type as the caller supplied it, and as the call
\* left it
Supplied(kind) ==
    IF kind = "production" THEN args.list_dicts_production_node_metadata
    ELSE IF kind = "extension" THEN args.list_dicts_extension_node_metadata
    ELSE args.list_dicts_indicator_node_metadata
Parsed(kind) ==
    IF kind = "production" THEN built.after.list_dicts_production_node_metadata
    ELSE IF kind = "extension" THEN built.after.list_dicts_extension_node_metadata
    ELSE built.after.list_dicts_indicator_node_metadata
NodeOfRecord(kind, k) == Parsed(kind)[k]["uuid"]

BadShape ==
    \/ NRows(args.array_production) # NCols(args.array_production)
    \/ NCols(args.array_extension) # NRows(args.array_production)
    \/ args.has_indicator /\ NCols(args.array_indicator) # NRows(args.array_extension)
    \/ NRows(args.array_production) # Len(Supplied("production"))
    \/ NRows(args.array_extension) # Len(Supplied("extension"))
    \/ args.has_indicator /\ NRows(args.array_indicator) # Len(Supplied("indicator"))

CompleteRecords ==
    \A kind \in Kinds : \A k \in 1..Len(Supplied(kind)) :
        {"name", "unit"} \subseteq DOMAIN Supplied(kind)[k]

WellFormed ==
    /\ ~BadShape
    /\ args.has_indicator = args.has_indicator_metadata
    /\ CompleteRecords

\* C4: for every input the constructor accepts, building the graph and
\* extracting with A and B sorted by 'index' completes and yields A equal to the
\* production matrix and B equal to the extension matrix, entry by entry, with
\* one row per metadata record and every row's node carrying its type tag.
C4_RoundTrip ==
    (AfterExtraction /\ opts.B
       /\ opts.A_sort_attributes = ByIndex /\ opts.B_sort_attributes = ByIndex) =>
        /\ matrices.err = "none"
        /\ matrices.A.data = args.array_production
        /\ matrices.B.data = args.array_extension
        /\ Len(matrices.A.rows) = Len(Supplied("production"))
        /\ Len(matrices.B.rows) = Len(Supplied("extension"))
        /\ \A k \in 1..Len(matrices.A.rows) :
              built.graph.attr[matrices.A.rows[k]]["type"] = "production"
        /\ \A k \in 1..Len(matrices.B.rows) :
              built.graph.attr[matrices.B.rows[k]]["type"] = "extension"

\* C5: under matrix_convention 'A' the constructor completes for well-formed
\* arguments, every production node i carries 'production' equal to entry
\* [i,i] of the matrix the caller supplied, the graph has no self-loop, and the
\* extracted flow matrix has a zero diagonal.
C5_ConventionA ==
    (AfterBuild /\ args.matrix_convention = "A" /\ WellFormed) =>
        /\ built.err = "none"
        /\ \A k \in 1..Len(Supplied("production")) :
              built.graph.attr[NodeOfRecord("production", k)]["production"]
                  = args.array_production[k][k]
        /\ \A k \in 1..Len(built.graph.edges) :
              built.graph.edges[k].u # built.graph.edges[k].v
        /\ pc = "extracted" =>
              \A k \in 1..Len(matrices.A.data) : matrices.A.data[k][k] = 0

\* C6: a graph returned by the constructor has, for each node type, as many
\* nodes of that type as the metadata list of the type has records, and no
\* node identifier belongs to records of two different types.
C6_Cardinality ==
    Built =>
        /\ \A kind \in Kinds :
              Len(NodesOfType(built.graph, kind)) = Len(Supplied(kind))
        /\ \A k1, k2 \in Kinds : k1 # k2 =>
              \A i \in 1..Len(Parsed(k1)), j \in 1..Len(Parsed(k2)) :
                  NodeOfRecord(k1, i) # NodeOfRecord(k2, j)

\* two records of different node types have the same identity-field value,
\* which assign_new_uuids = False makes the identifier of both nodes
TypeCollision ==
    /\ ~args.assign_new_uuids
    /\ \E k1, k2 \in Kinds :
         /\ k1 # k2
         /\ \E i \in 1..Len(Supplied(k1)), j \in 1..Len(Supplied(k2)) :
              /\ IdField \in DOMAIN Supplied(k1)[i]
              /\ IdField \in DOMAIN Supplied(k2)[j]
              /\ Supplied(k1)[i][IdField] = Supplied(k2)[j][IdField]

\* C8: when one node identifier comes with two different types into the
\* composition, the constructor raises instead of returning a merged graph.
C8_TypeCollisionRaises ==
    (AfterBuild /\ TypeCollision) => (pc = "build_raised" /\ built.err # "none")

SubgraphNames == {"A", "B", "Q"}
MergeOrders == {o \in [1..3 -> SubgraphNames] : Injective(o)}
ComposedInOrder(o) ==
    compose(compose(built.sub[o[1]], built.sub[o[2]]), built.sub[o[3]])
SameGraph(G, H) ==
    /\ Range(G.nodes) = Range(H.nodes)
    /\ G.attr = H.attr
    /\ Range(G.edges) = Range(H.edges)

\* C9: composing the sub-graphs of a returned graph in any order gives the node
\* set, the edges and the node and edge attributes of the returned graph.
C9_MergeOrderIndependent ==
    Built => \A o \in MergeOrders : SameGraph(ComposedInOrder(o), built.graph)

\* C10: the constructor raises ValueError from its precondition checks, before
\* it writes any argument, and returns no graph whenever the production matrix
\* is not square, the extension matrix has another number of columns than the
\* production matrix has rows, the indicator matrix has another number of
\* columns than the extension matrix has rows, or a matrix has another number
\* of rows than its metadata list has records.
C10_ShapePreconditions ==
    (AfterBuild /\ BadShape) =>
        /\ pc = "build_raised"
        /\ built.err = "ValueError"
        /\ built.graph = EmptyGraph
        /\ built.after = args

\* only the indicator matrix is ill-shaped: its columns are not the rows of
\* the extension matrix
C10_Witness ==
    /\ pc = "build_raised"
    /\ args.has_indicator /\ args.has_indicator_metadata
    /\ NRows(args.array_production) = NCols(args.array_production)
    /\ NCols(args.array_extension) = NRows(args.array_production)
    /\ NRows(args.array_production) = Len(Supplied("production"))
    /\ NRows(args.array_extension) = Len(Supplied("extension"))
    /\ NRows(args.array_indicator) = Len(Supplied("indicator"))
    /\ NCols(args.array_indicator) # NRows(args.array_extension)
    /\ built.err = "ValueError"

\* a record of some node type lacks 'name' or 'unit', in arguments that pass
\* the checks of the shapes and of the list lengths
IncompleteRecord ==
    /\ ~BadShape
    /\ args.has_indicator = args.has_indicator_metadata
    /\ ~CompleteRecords

\* C11: the constructor raises and returns no graph whenever a metadata record
\* of any node type (production, extension or indicator) lacks 'name' or 'unit'.
C11_RequiredKeysOfEveryType ==
    (AfterBuild /\ IncompleteRecord) =>
        (pc = "build_raised" /\ built.err # "none" /\ built.graph = EmptyGraph)

\* two nodes have equal values for all the caller's sort attributes
Tied(G, sort, n1, n2) == FirstDifference(G, sort.keys, n1, n2) = 0

\* tied nodes stand in the labels in ascending order of their identifiers
TiesByUuid(G, sort, labels) ==
    \A i, j \in 1..Len(labels) :
        (i < j /\ Tied(G, sort, labels[i], labels[j])) => labels[i] < labels[j]

\* C14: in the labels of an extracted matrix, nodes of one type with equal
\* values for all the caller's sort attributes stand in ascending order of
\* their identifiers, whatever the order in which the graph received them.
C14_TiesBrokenByUuid ==
    pc = "extracted" =>
        /\ TiesByUuid(built.graph, opts.A_sort_attributes, matrices.A.rows)
        /\ TiesByUuid(built.graph, opts.B_sort_attributes, matrices.B.rows)
        /\ matrices.hasQ =>
              TiesByUuid(built.graph, opts.Q_sort_attributes, matrices.Q.rows)

\* C27: whenever graph_system_from_input_output_matrices raises, the caller's
\* arguments are as before the call: no metadata record has gained or changed
\* a key ('uuid', 'index', 'type', 'system', 'production') and no entry of
\* an input matrix has been overwritten.
C27_InputsUntouchedOnError ==
    (AfterBuild /\ built.err # "none") =>
        /\ \A kind \in Kinds : Parsed(kind) = Supplied(kind)
        /\ built.after.array_production = args.array_production
        /\ built.after.array_extension = args.array_extension
        /\ built.after.array_indicator = args.array_indicator

\* the same extraction without sort attributes for B and Q
UnsortedExtraction ==
    _generate_matrices_from_graph(built.graph, opts.A, opts.B, opts.Q,
                                  opts.A_sort_attributes, NoSort, NoSort)
SortedRows(sort, type) == Sorted(built.graph, sort, NodesOfType(built.graph, type))

\* C23: when B_sort_attributes (Q_sort_attributes) is given and every extension
\* (indicator) node has these attributes, an extraction that completes without
\* them completes with them too, and the rows of B (of Q) are the extension
\* (indicator) nodes ordered by the tuple of those attributes, as the rows of A
\* are ordered by A_sort_attributes.
C23_SortAttributesOfBAndQ ==
    (/\ AfterExtraction /\ opts.B
     /\ opts.B_sort_attributes.given \/ (opts.Q /\ opts.Q_sort_attributes.given)
     /\ UnsortedExtraction.err = "none"
     /\ ~SortTypeError(built.graph, opts.B_sort_attributes, NodesOfType(built.graph, "extension"))
     /\ ~SortTypeError(built.graph, opts.Q_sort_attributes, NodesOfType(built.graph, "indicator"))) =>
        /\ matrices.err = "none"
        /\ matrices.A.rows = SortedRows(opts.A_sort_attributes, "production")
        /\ matrices.B.rows = SortedRows(opts.B_sort_attributes, "extension")
        /\ opts.Q => matrices.Q.rows = SortedRows(opts.Q_sort_attributes, "indicator")

\* C20: when an indicator matrix is supplied and the constructor returns a
\* graph, extraction with Q = True, the rows sorted by the indicator nodes'
\* 'index' and the columns by the extension nodes' 'index', completes and
\* returns Q equal to the indicator matrix entry by entry, with one row per
\* indicator metadata record.
C20_IndicatorRoundTrip ==
    (AfterExtraction /\ args.has_indicator /\ opts.Q
       /\ opts.B_sort_attributes = ByIndex /\ opts.Q_sort_attributes = ByIndex) =>
        /\ matrices.err = "none"
        /\ matrices.hasQ
        /\ Len(matrices.Q.rows) = Len(Supplied("indicator"))
        /\ matrices.Q.data = args.array_indicator

(***************************************************************************)
(* Claims about graph_system_from_node_and_edge_lists, checked under       *)
(* SpecLists.                                                              *)
(***************************************************************************)
IdentityKeys(list) == [k \in 1..Len(list) |-> list[k][IdField]]

\* C7: a graph is returned only if the production sub-graph and the extension
\* sub-graph each have as many nodes as their metadata list has records; two
\* records of one type with the same identity key make the call fail.
C7_ListCardinality ==
    Built =>
        /\ Len(built.sub.A.nodes) = Len(args.list_dicts_production_nodes_metadata)
        /\ Len(built.sub.B.nodes) = Len(args.list_dicts_extension_nodes_metadata)
        /\ Injective(IdentityKeys(args.list_dicts_production_nodes_metadata))
        /\ Injective(IdentityKeys(args.list_dicts_extension_nodes_metadata))

\* C28: the returned graph has exactly one edge per supplied edge triple, also
\* when several triples share source and target, with equal or different
\* amounts.
C28_OneEdgePerTriple ==
    Built =>
        Len(built.graph.edges) = Len(args.list_tuples_production_edges)
                                   + Len(args.list_tuples_extension_edges)

\* the graph with the natural keys as node labels, as line 451 composes it
KeyGraph == compose(built.sub.A, built.sub.B)

\* the node that the returned graph has for a natural key
NodeOfKey(key) ==
    IF args.assign_new_uuids
    THEN args.uuid4[CHOOSE k \in 1..Len(KeyGraph.nodes) : KeyGraph.nodes[k] = key]
    ELSE key

EdgeTriples ==
    Range(args.list_tuples_production_edges) \cup Range(args.list_tuples_extension_edges)

\* the edge's 'flow' or 'weight' attribute is the amount (the values of
\* attributes are numbers or strings, compared by their representation)
CarriesAmount(e, amount) ==
    \E k \in {"flow", "weight"} \cap DOMAIN e.attr :
        ToString(e.attr[k]) = ToString(amount)

\* C12: for every triple (source_key, target_key, amount) of either edge list
\* the returned graph has an edge from the node of source_key to the node of
\* target_key whose 'flow' or 'weight' attribute equals amount.
C12_EdgeCarriesAmount ==
    Built =>
        \A t \in EdgeTriples :
            \E k \in 1..Len(built.graph.edges) :
                /\ built.graph.edges[k].u = NodeOfKey(t[1])
                /\ built.graph.edges[k].v = NodeOfKey(t[2])
                /\ CarriesAmount(built.graph.edges[k], t[3])

\* the renaming of the nodes of K to the nodes of G that keeps their positions
PositionRenaming(K, G) ==
    [n \in DOMAIN K.attr |-> G.nodes[CHOOSE k \in 1..Len(K.nodes) : K.nodes[k] = n]]

RenamedEdge(e, m) == [e EXCEPT !.u = m[e.u], !.v = m[e.v]]

\* G is the image of K under the one-to-one renaming m of its nodes
IsImage(K, G, m) ==
    /\ \A n1, n2 \in DOMAIN K.attr : m[n1] = m[n2] => n1 = n2
    /\ \A n \in DOMAIN K.attr : G.attr[m[n]] = K.attr[n]
    /\ Range(G.edges) = {RenamedEdge(K.edges[k], m) : k \in 1..Len(K.edges)}

IsFreshImage(K, G) ==
    /\ Evaluated(K)
    /\ Len(G.nodes) = Len(K.nodes)
    /\ Len(G.edges) = Len(K.edges)
    /\ DOMAIN G.attr \cap DOMAIN K.attr = {}
    /\ IsImage(K, G, PositionRenaming(K, G))

\* C13: with assign_new_uuids the returned graph is the image of the
\* key-labelled graph under a one-to-one renaming of the nodes to fresh
\* identifiers: as many nodes and edges, every node with all its attributes,
\* every edge with its renamed endpoints, its direction and its attributes.
C13_RelabelIsRenaming ==
    (Built /\ args.assign_new_uuids) => IsFreshImage(KeyGraph, built.graph)

\* a relabelled graph of production and extension nodes with edges of both
\* edge lists between different nodes
C13_Witness ==
    /\ pc = "built"
    /\ args.assign_new_uuids
    /\ Len(built.graph.nodes) >= 3
    /\ args.list_tuples_production_edges # <<>>
    /\ args.list_tuples_extension_edges # <<>>
    /\ \E k \in 1..Len(built.graph.edges) :
          /\ built.graph.edges[k].u # built.graph.edges[k].v
          /\ built.graph.attr[built.graph.edges[k].u] # built.graph.attr[built.graph.edges[k].v]

(***************************************************************************)
(* Claims about _generate_matrices_from_graph on a caller's graph,         *)
(* checked under SpecExtract.                                              *)
(***************************************************************************)
ProductionOf(node) == built.graph.attr[node]["production"]

\* the quotient q = <<n, d>> is the value of amount / divisor
IsQuotient(q, amount, divisor) == q[1] * divisor = amount * q[2]

\* C15: the production-normalized technosphere matrix is the technosphere
\* matrix with every row i divided by the production of the node of row i.
C15_AnormScalesRows ==
    pc = "extracted" =>
        \A i, j \in 1..Len(matrices.A.rows) :
            IsQuotient(matrices.Anorm[i][j], matrices.A.data[i][j],
                       ProductionOf(matrices.A.rows[i]))

\* C16: the normalized biosphere matrix is the biosphere matrix with every
\* column j divided by the production of the production node of column j,
\* also when there are more or fewer extension nodes than production nodes.
C16_BnormScalesColumns ==
    pc = "extracted" =>
        /\ Len(matrices.Bnorm) = Len(matrices.B.rows)
        /\ \A r \in 1..Len(matrices.B.rows) :
              /\ Len(matrices.Bnorm[r]) = Len(matrices.B.cols)
              /\ \A j \in 1..Len(matrices.B.cols) :
                    IsQuotient(matrices.Bnorm[r][j], matrices.B.data[r][j],
                               ProductionOf(matrices.B.cols[j]))

\* fewer extension nodes than production nodes, the production nodes with
\* different production amounts, and a non-zero entry of B in a column whose
\* production is not that of the first column
C16_Witness ==
    /\ pc = "extracted"
    /\ Len(matrices.B.rows) < Len(matrices.B.cols)
    /\ \E r \in 1..Len(matrices.B.rows), j \in 1..Len(matrices.B.cols) :
          /\ matrices.B.data[r][j] # 0
          /\ ProductionOf(matrices.B.cols[j]) # 1
          /\ ProductionOf(matrices.B.cols[j]) # ProductionOf(matrices.B.cols[1])

(***************************************************************************)
(* Claims about _load_file_from_zenodo_with_caching, checked under         *)
(* SpecDownload.                                                           *)
(***************************************************************************)
\* C18: once a call has returned, every later call with the same arguments,
\* while the cache directory has not been removed, returns the same
\* path_cached_file, makes no request and leaves the files of the cache as
\* they are.
C18_CachedFileServed ==
    [][\A p \in loaded.returned :
           (loaded'.call = p[1]) =>
               /\ loaded'.err = "none"
               /\ loaded'.path = p[2]
               /\ downloads' = downloads
               /\ cache_dir'.files = cache_dir.files]_vars

\* a file was downloaded, other files were loaded, and the first call has
\* been repeated
C18_Witness ==
    /\ loaded.repeated
    /\ loaded.err = "none"
    /\ downloads >= 2
    /\ Cardinality(loaded.returned) >= 2
    /\ cache_dir.files[loaded.path].mtime < downloads

(***************************************************************************)
(* Claims about graph_from_matrix, checked under SpecGraph.                *)
(***************************************************************************)
\* the nodes the caller supplies, in the given order, and the nodes of the
\* matrix's columns
SuppliedContainer ==
    IF args.has_axis_1 THEN args.nodes_axis_0 \o args.nodes_axis_1 ELSE args.nodes_axis_0
ColumnContainer == IF args.has_axis_1 THEN args.nodes_axis_1 ELSE args.nodes_axis_0

\* the edges of the non-zero entries among the first k cells in row-major
\* order, each from the node of its row to the node of its column
EntryEdges(k) ==
    LET edges[c \in 0..k] ==
            IF c = 0 THEN <<>>
            ELSE LET i == Cells(args.matrix)[c][1]
                     j == Cells(args.matrix)[c][2]
                 IN IF args.matrix[i][j] = 0 THEN edges[c - 1]
                    ELSE Append(edges[c - 1],
                             [u |-> args.nodes_axis_0[i][1], v |-> ColumnContainer[j][1],
                              attr |-> Put(args.common_attributes_edges,
                                           args.name_amount_attribute, args.matrix[i][j])])
    IN edges[k]

\* C19: the graph has the supplied nodes in the given order with their
\* attributes, and its edges are, in row-major order of the matrix, one edge
\* for every non-zero entry [i,j] from the node of row i to the node of column
\* j with the entry as the amount attribute beside the common edge attributes.
C19_EdgePerNonZeroEntry ==
    pc = "graph_built" =>
        /\ built.graph.nodes = [k \in 1..Len(SuppliedContainer) |-> SuppliedContainer[k][1]]
        /\ \A k \in 1..Len(SuppliedContainer) :
              Len(SuppliedContainer[k]) = 2 =>
                  \A key \in DOMAIN SuppliedContainer[k][2] :
                      built.graph.attr[SuppliedContainer[k][1]][key]
                          = SuppliedContainer[k][2][key]
        /\ [k \in 1..Len(built.graph.edges) |->
               [u |-> built.graph.edges[k].u, v |-> built.graph.edges[k].v,
                attr |-> built.graph.edges[k].attr]]
             = EntryEdges(NRows(args.matrix) * NCols(args.matrix))

SuppliedLabels == {SuppliedContainer[k][1] : k \in 1..Len(SuppliedContainer)}

\* C30: the nodes of the returned graph are exactly the labels supplied in
\* nodes_axis_0 and nodes_axis_1, of whatever hashable type, and both ends of
\* every edge are supplied nodes.
C30_NoNodeCreatedByEdges ==
    pc = "graph_built" =>
        /\ Range(built.graph.nodes) = SuppliedLabels
        /\ \A k \in 1..Len(built.graph.edges) :
              /\ built.graph.edges[k].u \in SuppliedLabels
              /\ built.graph.edges[k].v \in SuppliedLabels

\* C29: the file that a call returns for (name_file, name_dir_cache,
\* zenodo_record) holds the content that Zenodo serves for this record and
\* file name, whatever calls came before; a call that fails with an HTTP error
\* leaves no file at its path in the cache.
C29_ServedFileIsOfRecord ==
    loaded.call # <<>> =>
        /\ loaded.err = "none" =>
              /\ <<loaded.call[3], loaded.call[1]>> \in DOMAIN ZenodoFiles
              /\ cache_dir.files[loaded.path].content
                     = ZenodoFiles[<<loaded.call[3], loaded.call[1]>>]
        /\ loaded.err = "HTTPError" =>
              <<loaded.call[2], loaded.call[1]>> \notin DOMAIN cache_dir.files

(***************************************************************************)
(* Claims about GreenMultiDiGraph._validate_node_attributes, checked under *)
(* SpecCore.                                                               *)
(***************************************************************************)
\* C22: _validate_node_attributes never raises for a node that is already in
\* the graph, whatever the attributes are (None included); for a node that is
\* not in the graph it raises ValueError whenever the node is None, the
\* attributes are None, the attributes lack 'type', or 'type' is no valid node
\* type.
C22_ValidateNodeAttributes ==
    validated.called =>
        /\ validated.in_graph => validated.err = "none"
        /\ (/\ ~validated.in_graph
            /\ \/ validated.node = <<>>
               \/ validated.attributes = <<>>
               \/ "type" \notin DOMAIN validated.attributes[1]
               \/ validated.attributes[1]["type"] \notin {"production", "extension", "indicator"})
           => validated.err = "ValueError"

\* a node added after construction is validated with None and passes, and the
\* graph holds a node whose type was overwritten by an invalid one
C22_Witness ==
    /\ validated.called /\ validated.err = "none"
    /\ validated.node = <<"new_node_1">> /\ validated.attributes = <<>>
    /\ validated.in_graph
    /\ built.graph.attr["existing_node"]["type"] = "invalid_type"

(***************************************************************************)
(* Claims about _get_nodes_from_node_container, checked under              *)
(* SpecContainer.                                                          *)
(***************************************************************************)
\* a (node, attribute dict) tuple
IsNodeAttrPair(item) ==
    item.type = "tuple" /\ Len(item.value) = 2 /\ item.value[2].type = "dict"

\* C25: the call returns a list as long as the container and in its order, in
\* which every (node, attribute dict) tuple is replaced by its node and every
\* other item is returned unchanged; it does not raise.
C25_NodesOfContainer ==
    pc \in {"have_nodes", "nodes_raised"} =>
        /\ list_nodes.err = "none"
        /\ Len(list_nodes.list) = Len(args)
        /\ \A k \in 1..Len(args) :
              list_nodes.list[k] = IF IsNodeAttrPair(args[k]) THEN args[k].value[1]
                                   ELSE args[k]

(***************************************************************************)
(* Claims about the vectors computed from extracted matrices, checked      *)
(* under SpecPipeline.                                                     *)
(***************************************************************************)
\* C26: for the matrices of one extraction and a demand on production nodes
\* of the graph, no call of the sequence calculate_production_vector,
\* calculate_inventory_vector, calculate_impact_vector raises the ValueError
\* of a label mismatch: x's row labels are A's, B's column labels are x's row
\* labels, g's row labels are B's, and Q's column labels are g's row labels.
C26_PipelineAligned ==
    /\ pc \in {"graph_x", "graph_x_raised", "graph_g", "graph_g_raised", "graph_h", "graph_h_raised"} =>
          /\ x.err # "ValueError"
          /\ x.err = "none" => x.rows = matrices.A.rows /\ matrices.B.cols = x.rows
    /\ pc \in {"graph_g", "graph_g_raised", "graph_h", "graph_h_raised"} =>
          /\ g.err = "none" /\ pc # "graph_g_raised"
          /\ g.rows = matrices.B.rows
          /\ matrices.hasQ => matrices.Q.cols = g.rows
    /\ pc \in {"graph_h", "graph_h_raised"} =>
          /\ h.err = "none" /\ pc = "graph_h"
          /\ h.rows = matrices.Q.rows

\* an impact vector was computed for a graph with two production and two
\* extension nodes whose new UUIDs are not in the order of the records, for
\* a demand on the second production node of A
C26_Witness ==
    /\ pc = "graph_h"
    /\ Len(x.rows) = 2 /\ Len(g.rows) = 2
    /\ args.assign_new_uuids
    /\ x.rows # [k \in 1..2 |-> built.after.list_dicts_production_node_metadata[k]["uuid"]]
    /\ g.rows # [k \in 1..2 |-> built.after.list_dicts_extension_node_metadata[k]["uuid"]]
    /\ Len(demand) = 1 /\ demand[1][1] = x.rows[2]
    /\ h.num # <<0>>

====
